---- MODULE Spec2Model ----
(***************************************************************************)
(* The action scheduler of nativelink: StateManagerImpl (queued, active    *)
(* and recently completed actions, the worker pool) behind the             *)
(* SimpleScheduler lock, the worker<->task matching task, and the watch    *)
(* channels over which action states are published.                        *)
(***************************************************************************)
EXTENDS Integers, Sequences, FiniteSets, TLC

\* ------------------------------------------------------------------ bounds
\* Number of operations (AwaitedActions) add_action may create in a run.
MaxOps == 2
\* ActionInfo.priority is drawn from 0..MaxPriority.
MaxPriority == 1
\* ActionInfo.insert_timestamp is drawn from 1..MaxInsertTime.
MaxInsertTime == 1
\* Worker timestamps and `now` are drawn from 0..MaxTime.
MaxTime == 1
\* Number of ResourceExhausted errors workers report in a run.
MaxBackpressure == 1

\* ------------------------------------------------------- program constants
\* SchedulerConfig.max_job_retries
max_job_retries == 2
\* SchedulerConfig.worker_timeout_s
worker_timeout_s == 1

Keys == {"k1", "k2"}
WorkerIds == {"w1", "w2"}
Priorities == 0..MaxPriority
InsertTimes == 1..MaxInsertTime
Timestamps == 0..MaxTime
ErrorCodes == {"Internal", "ResourceExhausted"}
\* The stages a worker reports with update_action.
WorkerStages == {"Queued", "Executing", "Completed"}
NoWorker == "none"
NoError == "none"
allocation_strategy == "least_recently_used"

VARIABLES
    queued_actions_set,         \* HashSet<Arc<ActionInfo>>, hashed by unique_qualifier
    queued_actions,             \* BTreeMap<Arc<ActionInfo>, AwaitedAction>
    workers,                    \* LruCache<WorkerId, Worker>: the values
    workers_lru,                \* LruCache<WorkerId, Worker>: the order, most recent first
    active_actions,             \* HashMap<Arc<ActionInfo>, AwaitedAction>
    recently_completed_actions, \* CompletedActions in order of completion
    tasks_change_notify,        \* Notify: a stored permit
    worker_change_notify,       \* Workers.worker_change_notify: a stored permit
    notify_channel,             \* per operation id: the value held by the watch channel
    receivers,                  \* per operation id: some client receiver is alive
    next_operation_id,          \* OperationId::new
    matching,                   \* the matching task: pc, the rest of its stream and
                                \* the entries it has taken from it in this pass
    backpressure_sent,          \* ResourceExhausted errors reported so far
    panicked,                   \* an assert! failed
    channels,                   \* the buf_channel pairs, by name: both halves and
                                \* what is in flight between them
    tasks,                      \* the futures that use the channels, by name: where
                                \* each one is and its local variables
    stores,                     \* what the stores behind a store driver hold
    history                     \* what the callers saw: the chunks sent and received
                                \* and what each future returned

vars == <<queued_actions_set, queued_actions, workers, workers_lru, active_actions,
          recently_completed_actions, tasks_change_notify, worker_change_notify,
          notify_channel, receivers, next_operation_id, matching,
          backpressure_sent, panicked, channels, tasks, stores, history>>

\* The variables of the store pipeline; the scheduler leaves them alone.
store_vars == <<channels, tasks, stores, history>>

\* The variables of the scheduler; the store pipeline leaves them alone.
scheduler_vars ==
    <<queued_actions_set, queued_actions, workers, workers_lru, active_actions,
      recently_completed_actions, tasks_change_notify, worker_change_notify,
      notify_channel, receivers, next_operation_id, matching,
      backpressure_sent, panicked>>

\* ---------------------------------------------------------------- helpers
Max(a, b) == IF a >= b THEN a ELSE b

MapRemove(f, k) == [x \in DOMAIN f \ {k} |-> f[x]]

MapInsert(f, k, v) == [x \in DOMAIN f \cup {k} |-> IF x = k THEN v ELSE f[x]]

SeqRemove(seq, e) == SelectSeq(seq, LAMBDA x : x # e)

\* The state the handlers work on, as one record.
St ==
    [queued_actions_set |-> queued_actions_set,
     queued_actions |-> queued_actions,
     workers |-> workers,
     workers_lru |-> workers_lru,
     active_actions |-> active_actions,
     recently_completed_actions |-> recently_completed_actions,
     tasks_change_notify |-> tasks_change_notify,
     worker_change_notify |-> worker_change_notify,
     notify_channel |-> notify_channel,
     receivers |-> receivers,
     stream |-> matching.stream,
     panicked |-> panicked]

Commit(s) ==
    /\ queued_actions_set' = s.queued_actions_set
    /\ queued_actions' = s.queued_actions
    /\ workers' = s.workers
    /\ workers_lru' = s.workers_lru
    /\ active_actions' = s.active_actions
    /\ recently_completed_actions' = s.recently_completed_actions
    /\ tasks_change_notify' = s.tasks_change_notify
    /\ worker_change_notify' = s.worker_change_notify
    /\ notify_channel' = s.notify_channel
    /\ receivers' = s.receivers
    /\ panicked' = s.panicked

\* ------------------------------------------------------------- data model
ActionInfo(k, p, t) == [unique_qualifier |-> k, priority |-> p, insert_timestamp |-> t]

ActionInfos == {ActionInfo(k, p, t) : k \in Keys, p \in Priorities, t \in InsertTimes}

\* Platform properties: Exact values of one property; k1 asks for nothing.
ActionPlatformProperties(k) == IF k = "k2" THEN {<<"prop", "2">>} ELSE {}

WorkerPlatformProperties(w) == IF w = "w1" THEN {<<"prop", "1">>} ELSE {<<"prop", "2">>}

is_satisfied_by(action_properties, worker_properties) ==
    action_properties \subseteq worker_properties

has_action_result(stage) == stage \in {"Completed", "CompletedError"}

is_finished(stage) == stage \in {"Completed", "CompletedError"}

\* The order of the unique_qualifiers (digest and salt).
KeyIndex(k) ==
    CASE k = "k1" -> 1
      [] k = "k2" -> 2
      [] OTHER -> 3

\* ActionInfo's Ord: higher priority is greater; for equal priority the older
\* insert_timestamp is greater; then the unique_qualifier.
ActionInfoLess(a, b) ==
    \/ a.priority < b.priority
    \/ a.priority = b.priority /\ a.insert_timestamp > b.insert_timestamp
    \/ /\ a.priority = b.priority
       /\ a.insert_timestamp = b.insert_timestamp
       /\ KeyIndex(a.unique_qualifier) < KeyIndex(b.unique_qualifier)

\* HashSet<Arc<ActionInfo>>: ActionInfo hashes and compares by unique_qualifier.
HashSetGet(set, k) == {e \in set : e.unique_qualifier = k}

HashSetContains(set, k) == HashSetGet(set, k) # {}

\* An insert that is lost.
HashSetInsertLost(set, info) == set

HashSetInsert(set, info) ==
    IF HashSetContains(set, info.unique_qualifier) THEN set ELSE set \cup {info}

HashSetRemove(set, k) == set \ HashSetGet(set, k)

\* ------------------------------------------------------------ LruCache
LruPut(s, worker_id, worker) ==
    [s EXCEPT !.workers = MapInsert(@, worker_id, worker),
              !.workers_lru = <<worker_id>> \o SeqRemove(@, worker_id)]

\* get_mut marks the entry as the most recently used one.
LruGetMut(s, worker_id) ==
    IF worker_id \in DOMAIN s.workers
    THEN [s EXCEPT !.workers_lru = <<worker_id>> \o SeqRemove(@, worker_id)]
    ELSE s

LruPop(s, worker_id) ==
    [s EXCEPT !.workers = MapRemove(@, worker_id),
              !.workers_lru = SeqRemove(@, worker_id)]

\* ------------------------------------------------------------ Worker
Worker(ts) ==
    [last_update_timestamp |-> ts,
     running_action_infos |-> {},
     is_paused |-> FALSE,
     is_draining |-> FALSE]

can_accept_work(worker) == ~worker.is_paused /\ ~worker.is_draining

has_actions(worker) == worker.running_action_infos # {}

\* run_action: the action is recorded as running on the worker.
run_action(worker, action_info) ==
    [worker EXCEPT !.running_action_infos =
        HashSetInsert(@, action_info)]

\* complete_action: the entry is removed; the pause is cleared unless the
\* worker still holds other actions.
complete_action(worker, action_info) ==
    LET rest == HashSetRemove(worker.running_action_infos, action_info.unique_qualifier)
    IN [worker EXCEPT !.running_action_infos = rest,
                      !.is_paused = IF rest = {} THEN FALSE ELSE @]

\* ------------------------------------------------------------ watch channel
\* A send succeeds while a receiver is alive: a client's, or one of those the
\* matching task holds for the entries of its stream.
HasReceiver(s, id) ==
    \/ s.receivers[id]
    \/ \E i \in 1..Len(s.stream) : s.stream[i].id = id

set_stage(awaited_action, action_stage) == [awaited_action EXCEPT !.stage = action_stage]

\* notify_channel.send(current_state): the value is replaced only when the
\* send succeeds.
notify_channel_send(s, awaited_action) ==
    IF HasReceiver(s, awaited_action.id)
    THEN [s EXCEPT !.notify_channel[awaited_action.id] = awaited_action.stage]
    ELSE s

mutate_stage(s, awaited_action, action_stage) ==
    notify_channel_send(s, set_stage(awaited_action, action_stage))

\* ------------------------------------------------------- StateManagerImpl
\* run_actions counts the RunAction frames sent to workers for the operation.
AwaitedAction(id) ==
    [id |-> id, stage |-> "Queued", attempts |-> 0,
     last_error |-> NoError, worker_id |-> NoWorker, run_actions |-> 0]

\* A retry that puts the action back in the queue however often it ran.
retry_action_without_limit(s, action_info, worker_id, err) ==
    LET k == action_info.unique_qualifier IN
    IF k \in DOMAIN s.active_actions
    THEN LET awaited_action == set_stage(s.active_actions[k].awaited_action, "Queued")
             s2 == notify_channel_send([s EXCEPT !.active_actions = MapRemove(@, k)],
                                       awaited_action)
         IN [s2 EXCEPT
                !.queued_actions_set = HashSetInsert(@, action_info),
                !.queued_actions = MapInsert(@, action_info, awaited_action)]
    ELSE s

retry_action(s, action_info, worker_id, err) ==
    LET k == action_info.unique_qualifier IN
    IF k \in DOMAIN s.active_actions
    THEN LET running_action == s.active_actions[k].awaited_action
             s1 == [s EXCEPT !.active_actions = MapRemove(@, k)]
         IN IF running_action.attempts >= max_job_retries
            THEN \* Not put back in the queue: it ran too many times.
                 notify_channel_send(s1, set_stage(running_action, "CompletedError"))
            ELSE LET awaited_action == set_stage(running_action, "Queued")
                     s2 == notify_channel_send(s1, awaited_action)
                 IN [s2 EXCEPT
                        !.queued_actions_set = HashSetInsert(@, action_info),
                        !.queued_actions = MapInsert(@, action_info, awaited_action)]
    ELSE s

\* for action_info in worker.running_action_infos.drain() { retry_action(..) }
RECURSIVE drain_retry_action(_, _, _, _)
drain_retry_action(s, running_action_infos, worker_id, err) ==
    IF running_action_infos = {}
    THEN s
    ELSE LET action_info == CHOOSE a \in running_action_infos : TRUE
         IN drain_retry_action(retry_action(s, action_info, worker_id, err),
                               running_action_infos \ {action_info}, worker_id, err)

\* Workers::remove_worker
remove_worker(s, worker_id) ==
    [LruPop(s, worker_id) EXCEPT !.worker_change_notify = TRUE]

immediate_evict_worker(s, worker_id, err) ==
    IF worker_id \in DOMAIN s.workers
    THEN LET worker == s.workers[worker_id]
             s1 == remove_worker(s, worker_id)
             s2 == drain_retry_action(s1, worker.running_action_infos, worker_id, err)
         IN [s2 EXCEPT !.tasks_change_notify = TRUE]
    ELSE [s EXCEPT !.worker_change_notify = TRUE]

\* Result<(), Error> of a handler together with the state it leaves.
Ok(s) == [s |-> s, ok |-> TRUE]

Err(s) == [s |-> s, ok |-> FALSE]

\* The result of the send of RunAction is not looked at.
worker_notify_run_action_unchecked(s, worker_id, action_info, sent) ==
    IF worker_id \in DOMAIN s.workers
    THEN Ok([LruGetMut(s, worker_id) EXCEPT
                !.workers[worker_id] = run_action(@, action_info)])
    ELSE Ok(s)

\* sent: whether the worker's end of its update channel is still there, so that
\* the send of RunAction succeeds.
worker_notify_run_action(s, worker_id, action_info, sent) ==
    IF worker_id \in DOMAIN s.workers
    THEN LET s1 == LruGetMut(s, worker_id)
             s2 == [s1 EXCEPT !.workers[worker_id] = run_action(@, action_info)]
         IN IF sent
            THEN Ok(IF action_info \in DOMAIN s2.queued_actions
                    THEN [s2 EXCEPT !.queued_actions[action_info].run_actions = @ + 1]
                    ELSE s2)
            ELSE Err(immediate_evict_worker(s2, worker_id, "Internal"))
    ELSE Ok(s)

\* action_stage is a Result<ActionStage, Error>: [ok, stage] or [ok, err].
worker_set_action_stage(s, awaited_action, action_stage) ==
    IF action_stage.ok
    THEN mutate_stage(s, awaited_action, action_stage.stage)
    ELSE notify_channel_send(s, awaited_action)

\* The action is made active and the attempt is not counted.
worker_set_as_active_not_counted(s, action_info, worker_id, action_stage) ==
    IF action_info \in DOMAIN s.queued_actions /\
       HashSetContains(s.queued_actions_set, action_info.unique_qualifier)
    THEN LET queued == s.queued_actions[action_info]
             s1 == [s EXCEPT
                       !.queued_actions = MapRemove(@, action_info),
                       !.queued_actions_set = HashSetRemove(@, action_info.unique_qualifier)]
             a1 == [queued EXCEPT !.worker_id = worker_id]
             a2 == IF action_stage.ok
                   THEN set_stage(a1, action_stage.stage)
                   ELSE [a1 EXCEPT !.last_error = action_stage.err]
             s2 == worker_set_action_stage(s1, a1, action_stage)
         IN Ok([s2 EXCEPT !.active_actions =
                   MapInsert(@, action_info.unique_qualifier,
                             [action_info |-> action_info, awaited_action |-> a2])])
    ELSE Err(s)

worker_set_as_active(s, action_info, worker_id, action_stage) ==
    IF action_info \in DOMAIN s.queued_actions
    THEN LET queued == s.queued_actions[action_info]
             in_set == HashSetContains(s.queued_actions_set, action_info.unique_qualifier)
             s1 == [s EXCEPT
                       !.queued_actions = MapRemove(@, action_info),
                       !.queued_actions_set = HashSetRemove(@, action_info.unique_qualifier),
                       !.panicked = ~in_set]
             a1 == [queued EXCEPT !.worker_id = worker_id]
             a2 == IF action_stage.ok
                   THEN set_stage(a1, action_stage.stage)
                   ELSE [a1 EXCEPT !.last_error = action_stage.err]
             s2 == worker_set_action_stage(s1, a1, action_stage)
             a3 == [a2 EXCEPT !.attempts = @ + 1]
         IN IF in_set
            THEN Ok([s2 EXCEPT !.active_actions =
                        MapInsert(@, action_info.unique_qualifier,
                                  [action_info |-> action_info, awaited_action |-> a3])])
            ELSE Err(s1)
    ELSE Err(s)

update_action_with_internal_error(s, worker_id, action_info_hash_key, err) ==
    IF action_info_hash_key \notin DOMAIN s.active_actions
    THEN s
    ELSE
    LET action_info == s.active_actions[action_info_hash_key].action_info
        removed == s.active_actions[action_info_hash_key].awaited_action
        due_to_backpressure == (err = "ResourceExhausted")
        \* Don't count a backpressure failure as an attempt for an action.
        r1 == IF due_to_backpressure
              THEN [removed EXCEPT !.attempts = @ - 1]
              ELSE removed
    IN IF r1.worker_id = NoWorker
       THEN [s EXCEPT !.active_actions = MapRemove(@, action_info_hash_key)]
       ELSE
       LET \* Don't set the error on an action that's running somewhere else.
           running_action == IF r1.worker_id = worker_id
                             THEN [r1 EXCEPT !.last_error = err]
                             ELSE r1
           \* Now put it back. retry_action() needs it to be there.
           s1 == [s EXCEPT !.active_actions[action_info_hash_key].awaited_action =
                     running_action]
           \* Clear this action from the current worker.
           s2 == IF worker_id \in DOMAIN s1.workers
                 THEN LET was_paused == ~can_accept_work(s1.workers[worker_id])
                          completed == complete_action(s1.workers[worker_id], action_info)
                          worker == IF (was_paused \/ due_to_backpressure)
                                       /\ has_actions(completed)
                                    THEN [completed EXCEPT !.is_paused = TRUE]
                                    ELSE completed
                      IN [LruGetMut(s1, worker_id) EXCEPT !.workers[worker_id] = worker]
                 ELSE s1
           \* Re-queue the action or fail on max attempts.
           s3 == retry_action(s2, action_info, worker_id, err)
       IN [s3 EXCEPT !.tasks_change_notify = TRUE]

\* ----------------------------------------------------- ClientStateManager
\* An add_action that never joins: it always creates an operation.
add_action_always_new(s, action_info, new_id) ==
    [s |-> [s EXCEPT
               !.queued_actions_set = HashSetInsert(@, action_info),
               !.queued_actions = MapInsert(@, action_info, AwaitedAction(new_id)),
               !.notify_channel = MapInsert(@, new_id, "Queued"),
               !.receivers = MapInsert(@, new_id, TRUE),
               !.tasks_change_notify = TRUE],
     ok |-> TRUE, sub |-> new_id]

\* An add_action whose join of a queued action takes the priority of the new
\* submission instead of the greater of the two.
add_action_new_priority(s, action_info, new_id) ==
    LET k == action_info.unique_qualifier IN
    IF k \in DOMAIN s.active_actions
    THEN LET id == s.active_actions[k].awaited_action.id
         IN [s |-> [s EXCEPT !.receivers[id] = TRUE, !.tasks_change_notify = TRUE],
             ok |-> TRUE, sub |-> id]
    ELSE IF HashSetContains(s.queued_actions_set, k)
    THEN LET arc_action_info == CHOOSE e \in s.queued_actions_set : e.unique_qualifier = k
             s1 == [s EXCEPT !.queued_actions_set = HashSetRemove(@, k)]
         IN IF arc_action_info \notin DOMAIN s.queued_actions
            THEN [s |-> s1, ok |-> FALSE, sub |-> 0]
            ELSE LET queued_action == s.queued_actions[arc_action_info]
                     mutated == [arc_action_info EXCEPT !.priority = action_info.priority]
                     s2 == [s1 EXCEPT
                              !.queued_actions =
                                  MapInsert(MapRemove(@, arc_action_info), mutated, queued_action),
                              !.receivers[queued_action.id] = TRUE]
                     s3 == [s2 EXCEPT
                              !.queued_actions_set = HashSetInsert(@, mutated),
                              !.tasks_change_notify = TRUE]
                 IN [s |-> s3, ok |-> TRUE, sub |-> queued_action.id]
    ELSE add_action_always_new(s, action_info, new_id)

\* add_action: the state it leaves and the operation the returned receiver
\* is subscribed to.
add_action(s, action_info, new_id) ==
    LET k == action_info.unique_qualifier IN
    IF k \in DOMAIN s.active_actions
    THEN \* Joins the running action.
         LET id == s.active_actions[k].awaited_action.id
         IN [s |-> [s EXCEPT !.receivers[id] = TRUE, !.tasks_change_notify = TRUE],
             ok |-> TRUE, sub |-> id]
    ELSE IF HashSetContains(s.queued_actions_set, k)
    THEN \* Joins the queued action, raising its priority.
         LET arc_action_info == CHOOSE e \in s.queued_actions_set : e.unique_qualifier = k
             s1 == [s EXCEPT !.queued_actions_set = HashSetRemove(@, k)]
         IN IF arc_action_info \notin DOMAIN s.queued_actions
            THEN [s |-> s1, ok |-> FALSE, sub |-> 0]
            ELSE LET queued_action == s.queued_actions[arc_action_info]
                     new_priority == Max(arc_action_info.priority, action_info.priority)
                     mutated == [arc_action_info EXCEPT !.priority = new_priority]
                     s2 == [s1 EXCEPT
                              !.queued_actions =
                                  MapInsert(MapRemove(@, arc_action_info), mutated, queued_action),
                              !.receivers[queued_action.id] = TRUE]
                     s3 == [s2 EXCEPT
                              !.queued_actions_set = HashSetInsert(@, mutated),
                              !.tasks_change_notify = TRUE]
                 IN [s |-> s3, ok |-> TRUE, sub |-> queued_action.id]
    ELSE \* A new action.
         [s |-> [s EXCEPT
                    !.queued_actions_set = HashSetInsert(@, action_info),
                    !.queued_actions = MapInsert(@, action_info, AwaitedAction(new_id)),
                    !.notify_channel = MapInsert(@, new_id, "Queued"),
                    !.receivers = MapInsert(@, new_id, TRUE),
                    !.tasks_change_notify = TRUE],
          ok |-> TRUE, sub |-> new_id]

\* ----------------------------------------------------- WorkerStateManager
CompletedAction(awaited_action, action_info) ==
    [id |-> awaited_action.id,
     unique_qualifier |-> action_info.unique_qualifier,
     stage |-> awaited_action.stage]

\* A finished action is put back into active_actions like an unfinished one.
update_operation_result_keeps_active(s, key, worker_id, action_stage) ==
    IF key \notin DOMAIN s.active_actions
    THEN Err(s)
    ELSE
    LET running_action == s.active_actions[key].awaited_action
    IN IF running_action.worker_id # worker_id
       THEN Err(immediate_evict_worker(s, worker_id, "Internal"))
       ELSE Ok([mutate_stage(s, running_action, action_stage) EXCEPT
                   !.active_actions[key].awaited_action =
                       set_stage(running_action, action_stage),
                   !.tasks_change_notify = TRUE])

\* update_operation with Ok(action_stage), once the stage is known to carry a
\* result: the action is taken out of active_actions, its stage published.
update_operation_result(s, key, worker_id, action_stage) ==
    IF key \notin DOMAIN s.active_actions
    THEN Err(s)
    ELSE
    LET action_info == s.active_actions[key].action_info
        running_action == s.active_actions[key].awaited_action
    IN IF running_action.worker_id # worker_id
       THEN \* Put back in active_actions, the reporting worker is evicted.
            Err(immediate_evict_worker(s, worker_id, "Internal"))
       ELSE
       LET mutated == set_stage(running_action, action_stage)
           s1 == mutate_stage([s EXCEPT !.active_actions = MapRemove(@, key)],
                              running_action, action_stage)
       IN IF ~is_finished(mutated.stage)
          THEN Ok([s1 EXCEPT
                     !.active_actions =
                         MapInsert(@, key, [action_info |-> action_info,
                                            awaited_action |-> mutated]),
                     !.tasks_change_notify = TRUE])
          ELSE
          LET \* Keep in case this is asked for soon.
              s2 == [s1 EXCEPT !.recently_completed_actions =
                        Append(@, CompletedAction(mutated, action_info))]
          IN IF worker_id \notin DOMAIN s2.workers
             THEN Err(s2)
             ELSE Ok([LruGetMut(s2, worker_id) EXCEPT
                        !.workers[worker_id] = complete_action(@, action_info),
                        !.tasks_change_notify = TRUE])

\* A stage from a worker is taken as it comes, with a result or not.
update_operation_ungated(s, key, worker_id, action_stage) ==
    update_operation_result(s, key, worker_id, action_stage)

\* update_operation with Ok(action_stage)
update_operation_ok(s, key, worker_id, action_stage) ==
    IF ~has_action_result(action_stage)
    THEN Err(immediate_evict_worker(s, worker_id, "Internal"))
    ELSE update_operation_result(s, key, worker_id, action_stage)

\* Every error of a worker is taken for an internal error.
update_operation_err_as_internal(s, key, worker_id, err) ==
    Err(update_action_with_internal_error(s, worker_id, key, "Internal"))

\* Every error of a worker is taken for backpressure.
update_operation_err_as_backpressure(s, key, worker_id, err) ==
    Err(update_action_with_internal_error(s, worker_id, key, "ResourceExhausted"))

\* update_operation with Err(e)
update_operation_err(s, key, worker_id, err) ==
    Err(update_action_with_internal_error(s, worker_id, key, err))

\* ----------------------------------------------- MatchingEngineStateManager
\* The queued actions from the first of the BTreeMap on: iter() without rev().
RECURSIVE filter_operations_forward(_)
filter_operations_forward(queued) ==
    IF DOMAIN queued = {}
    THEN <<>>
    ELSE LET bottom == CHOOSE a \in DOMAIN queued :
                           \A b \in DOMAIN queued \ {a} : ActionInfoLess(a, b)
         IN <<[action_info |-> bottom, id |-> queued[bottom].id]>>
            \o filter_operations_forward(MapRemove(queued, bottom))

\* filter_operations: the queued actions, last of the BTreeMap first, each
\* with a receiver of its channel.
RECURSIVE filter_operations(_)
filter_operations(queued) ==
    IF DOMAIN queued = {}
    THEN <<>>
    ELSE LET top == CHOOSE a \in DOMAIN queued :
                        \A b \in DOMAIN queued \ {a} : ActionInfoLess(b, a)
         IN <<[action_info |-> top, id |-> queued[top].id]>>
            \o filter_operations(MapRemove(queued, top))

matching_update_operation(s, key, worker_id, action_stage, sent) ==
    IF HashSetContains(s.queued_actions_set, key)
    THEN IF worker_id # NoWorker
         THEN LET action_info == CHOOSE e \in s.queued_actions_set : e.unique_qualifier = key
                  notified == worker_notify_run_action(s, worker_id, action_info, sent)
              IN IF notified.ok
                 THEN worker_set_as_active(notified.s, action_info, worker_id, action_stage)
                 ELSE notified
         ELSE Ok(s)
    ELSE Ok(s)

\* ------------------------------------------------------------ Workers
\* Workers::add_worker: the worker is put in the pool, then the connection
\* result is sent to it.
workers_add_worker(s, worker_id, worker, sent) ==
    LET s1 == [LruPut(s, worker_id, worker) EXCEPT !.worker_change_notify = TRUE]
    IN IF sent THEN Ok(s1) ELSE Err(s1)

refresh_lifetime(s, worker_id, timestamp) ==
    IF worker_id \notin DOMAIN s.workers
    THEN Err(s)
    ELSE LET s1 == LruGetMut(s, worker_id)
         IN IF s1.workers[worker_id].last_update_timestamp > timestamp
            THEN Err(s1)
            ELSE Ok([s1 EXCEPT !.workers[worker_id].last_update_timestamp = timestamp])

\* A worker is taken for an action whatever its platform properties are.
EligibleWhateverProperties(s, w, k) == can_accept_work(s.workers[w])

Eligible(s, w, k) ==
    /\ can_accept_work(s.workers[w])
    /\ is_satisfied_by(ActionPlatformProperties(k), WorkerPlatformProperties(w))

\* find_worker_for_action: rfind on the iteration from most to least recently
\* used, or find for most_recently_used.
find_worker_for_action(s, k) ==
    LET hits == {i \in 1..Len(s.workers_lru) : Eligible(s, s.workers_lru[i], k)}
    IN IF hits = {}
       THEN NoWorker
       ELSE IF allocation_strategy = "least_recently_used"
            THEN s.workers_lru[CHOOSE i \in hits : \A j \in hits : j <= i]
            ELSE s.workers_lru[CHOOSE i \in hits : \A j \in hits : j >= i]

\* ---------------------------------------------------- SimpleSchedulerImpl
\* A retry that leaves the action in active_actions when it re-queues it.
scheduler_retry_action_keeps_active(s, action_info, worker_id, err) ==
    LET k == action_info.unique_qualifier IN
    IF k \in DOMAIN s.active_actions /\
       s.active_actions[k].awaited_action.attempts < max_job_retries
    THEN LET running_action == s.active_actions[k].awaited_action
             s2 == mutate_stage(s, running_action, "Queued")
         IN [s2 EXCEPT
                !.queued_actions_set = HashSetInsert(@, action_info),
                !.queued_actions =
                    MapInsert(@, action_info, set_stage(running_action, "Queued"))]
    ELSE s

scheduler_retry_action(s, action_info, worker_id, err) ==
    LET k == action_info.unique_qualifier IN
    IF k \in DOMAIN s.active_actions
    THEN LET running_action == s.active_actions[k].awaited_action
             s1 == [s EXCEPT !.active_actions = MapRemove(@, k)]
         IN IF running_action.attempts >= max_job_retries
            THEN mutate_stage(s1, running_action, "CompletedError")
            ELSE LET s2 == mutate_stage(s1, running_action, "Queued")
                 IN [s2 EXCEPT
                        !.queued_actions_set = HashSetInsert(@, action_info),
                        !.queued_actions =
                            MapInsert(@, action_info, set_stage(running_action, "Queued"))]
    ELSE s

RECURSIVE scheduler_drain_retry_action(_, _, _, _)
scheduler_drain_retry_action(s, running_action_infos, worker_id, err) ==
    IF running_action_infos = {}
    THEN s
    ELSE LET action_info == CHOOSE a \in running_action_infos : TRUE
         IN scheduler_drain_retry_action(
                scheduler_retry_action(s, action_info, worker_id, err),
                running_action_infos \ {action_info}, worker_id, err)

\* An eviction that takes the worker out of the pool and leaves what it was
\* executing in active_actions.
scheduler_evict_worker_only(s, worker_id, err) ==
    LET s2 == IF worker_id \in DOMAIN s.workers
              THEN remove_worker(s, worker_id)
              ELSE [s EXCEPT !.worker_change_notify = TRUE]
    IN [s2 EXCEPT !.tasks_change_notify = TRUE]

\* Evicts the worker from the pool and puts back into the queue what was
\* being executed on it.
scheduler_immediate_evict_worker(s, worker_id, err) ==
    LET s2 == IF worker_id \in DOMAIN s.workers
              THEN scheduler_drain_retry_action(remove_worker(s, worker_id),
                       s.workers[worker_id].running_action_infos, worker_id, err)
              ELSE [s EXCEPT !.worker_change_notify = TRUE]
    IN [s2 EXCEPT !.tasks_change_notify = TRUE]

add_worker(s, worker_id, worker, sent) ==
    LET res == workers_add_worker(s, worker_id, worker, sent)
        s1 == IF res.ok
              THEN res.s
              ELSE scheduler_immediate_evict_worker(res.s, worker_id, "Internal")
    IN [s |-> [s1 EXCEPT !.tasks_change_notify = TRUE], ok |-> res.ok]

\* The workers taken by iter().rev().map_while(..): from the least recently
\* used end, up to the first worker that has not timed out.
worker_ids_to_remove(s, now_timestamp) ==
    LET n == Len(s.workers_lru)
        timedout(i) == s.workers[s.workers_lru[i]].last_update_timestamp
                          <= now_timestamp - worker_timeout_s
        first == CHOOSE i \in 1..(n + 1) :
                    /\ \A j \in i..n : timedout(j)
                    /\ i > 1 => ~timedout(i - 1)
    IN [j \in 1..(n + 1 - first) |-> s.workers_lru[n + 1 - j]]

RECURSIVE evict_all(_, _)
evict_all(s, worker_ids) ==
    IF worker_ids = <<>>
    THEN s
    ELSE evict_all(scheduler_immediate_evict_worker(s, Head(worker_ids), "Internal"),
                   Tail(worker_ids))

remove_timedout_workers(s, now_timestamp) ==
    evict_all(s, worker_ids_to_remove(s, now_timestamp))

\* The worker is drained or un-drained and the matching task is not told.
set_drain_worker_no_notify(s, worker_id, is_draining) ==
    IF worker_id \notin DOMAIN s.workers
    THEN Err(s)
    ELSE Ok([LruGetMut(s, worker_id) EXCEPT
                !.workers[worker_id].is_draining = is_draining])

set_drain_worker(s, worker_id, is_draining) ==
    IF worker_id \notin DOMAIN s.workers
    THEN Err(s)
    ELSE Ok([LruGetMut(s, worker_id) EXCEPT
                !.workers[worker_id].is_draining = is_draining,
                !.tasks_change_notify = TRUE])

\* retain(|action| action.completed_time > expiry_time): the n oldest entries
\* have expired.
clean_recently_completed_actions(s, n) ==
    [s EXCEPT !.recently_completed_actions = SubSeq(@, n + 1, Len(@))]

\* One iteration of the loop of do_try_match, on the head of its stream.
do_try_match_step(s, sent) ==
    LET action_info == Head(s.stream).action_info IN
    IF action_info \notin DOMAIN s.queued_actions
    THEN s
    ELSE LET maybe_worker_id == find_worker_for_action(s, action_info.unique_qualifier)
         IN matching_update_operation(s, action_info.unique_qualifier, maybe_worker_id,
                                      [ok |-> TRUE, stage |-> "Executing"], sent).s

\* ------------------------------------------------------------------ actions
SchedulerInit ==
    /\ queued_actions_set = {}
    /\ queued_actions = <<>>
    /\ workers = <<>>
    /\ workers_lru = <<>>
    /\ active_actions = <<>>
    /\ recently_completed_actions = <<>>
    /\ tasks_change_notify = FALSE
    /\ worker_change_notify = FALSE
    /\ notify_channel = <<>>
    /\ receivers = <<>>
    /\ next_operation_id = 1
    /\ matching = [pc |-> "wait", stream |-> <<>>, offered |-> <<>>]
    /\ backpressure_sent = 0
    /\ panicked = FALSE

\* A scheduler on its own: no store pipeline is running.
Init ==
    /\ SchedulerInit
    /\ channels = <<>>
    /\ tasks = <<>>
    /\ stores = <<>>
    /\ history = <<>>

\* The SimpleSchedulerImpl lock is free: the matching task is not in do_try_match.
LockFree == matching.pc # "run" /\ ~panicked

\* add_action in a run that creates at most max_ops operations.
AddActionUpTo(action_info, max_ops) ==
    /\ LockFree
    /\ \E r \in {add_action(St, action_info, next_operation_id)} :
          /\ r.sub = next_operation_id => next_operation_id <= max_ops
          /\ Commit(r.s)
          /\ next_operation_id' =
                IF r.sub = next_operation_id THEN next_operation_id + 1
                ELSE next_operation_id
    /\ UNCHANGED <<matching, backpressure_sent>>
    /\ UNCHANGED store_vars

AddAction(action_info) == AddActionUpTo(action_info, MaxOps)

AddWorker(worker_id, timestamp, sent) ==
    /\ LockFree
    /\ worker_id \notin DOMAIN workers
    /\ \E r \in {add_worker(St, worker_id, Worker(timestamp), sent)} : Commit(r.s)
    /\ UNCHANGED <<matching, backpressure_sent, next_operation_id>>
    /\ UNCHANGED store_vars

RemoveWorker(worker_id) ==
    /\ LockFree
    /\ \E r \in {scheduler_immediate_evict_worker(St, worker_id, "Internal")} : Commit(r)
    /\ UNCHANGED <<matching, backpressure_sent, next_operation_id>>
    /\ UNCHANGED store_vars

RemoveTimedoutWorkers(now_timestamp) ==
    /\ LockFree
    /\ \E r \in {remove_timedout_workers(St, now_timestamp)} : Commit(r)
    /\ UNCHANGED <<matching, backpressure_sent, next_operation_id>>
    /\ UNCHANGED store_vars

WorkerKeepAliveReceived(worker_id, timestamp) ==
    /\ LockFree
    /\ \E r \in {refresh_lifetime(St, worker_id, timestamp)} : Commit(r.s)
    /\ UNCHANGED <<matching, backpressure_sent, next_operation_id>>
    /\ UNCHANGED store_vars

SetDrainWorker(worker_id, is_draining) ==
    /\ LockFree
    /\ \E r \in {set_drain_worker(St, worker_id, is_draining)} : Commit(r.s)
    /\ UNCHANGED <<matching, backpressure_sent, next_operation_id>>
    /\ UNCHANGED store_vars

UpdateActionOk(worker_id, key, action_stage) ==
    /\ LockFree
    /\ \E r \in {update_operation_ok(St, key, worker_id, action_stage)} : Commit(r.s)
    /\ UNCHANGED <<matching, backpressure_sent, next_operation_id>>
    /\ UNCHANGED store_vars

UpdateActionErr(worker_id, key, err) ==
    /\ LockFree
    /\ err = "ResourceExhausted" => backpressure_sent < MaxBackpressure
    /\ \E r \in {update_operation_err(St, key, worker_id, err)} : Commit(r.s)
    /\ backpressure_sent' =
          IF err = "ResourceExhausted" THEN backpressure_sent + 1 ELSE backpressure_sent
    /\ UNCHANGED <<matching, next_operation_id>>
    /\ UNCHANGED store_vars

CleanRecentlyCompletedActions(n) ==
    /\ LockFree
    /\ \E r \in {clean_recently_completed_actions(St, n)} : Commit(r)
    /\ UNCHANGED <<matching, backpressure_sent, next_operation_id>>
    /\ UNCHANGED store_vars

\* The operations that have an AwaitedAction, queued or active.
LiveIds ==
    {queued_actions[a].id : a \in DOMAIN queued_actions}
        \cup {active_actions[k].awaited_action.id : k \in DOMAIN active_actions}

\* Every client receiver of a live operation's channel has been dropped.
ClientDropsReceivers(id) ==
    /\ ~panicked
    /\ id \in LiveIds
    /\ receivers[id]
    /\ receivers' = [receivers EXCEPT ![id] = FALSE]
    /\ UNCHANGED <<queued_actions_set, queued_actions, workers, workers_lru,
                   active_actions, recently_completed_actions, tasks_change_notify,
                   worker_change_notify, notify_channel, next_operation_id, matching,
                   backpressure_sent, panicked>>
    /\ UNCHANGED store_vars

\* tasks_change_notify.notified().await returns, consuming the permit; the
\* task takes the lock and do_try_match collects the queued operations.
MatcherBegin ==
    /\ ~panicked
    /\ matching.pc = "wait"
    /\ tasks_change_notify
    /\ tasks_change_notify' = FALSE
    /\ LET stream == filter_operations(queued_actions)
       IN matching' = [pc |-> IF stream = <<>> THEN "wait" ELSE "run",
                       stream |-> stream, offered |-> <<>>]
    /\ UNCHANGED <<queued_actions_set, queued_actions, workers, workers_lru,
                   active_actions, recently_completed_actions,
                   worker_change_notify, notify_channel, receivers, next_operation_id,
                   backpressure_sent, panicked>>
    /\ UNCHANGED store_vars

\* One iteration of do_try_match; the lock is released after the last one.
MatcherStep(sent) ==
    /\ ~panicked
    /\ matching.pc = "run"
    /\ \E r \in {do_try_match_step(St, sent)} : Commit(r)
    /\ LET rest == Tail(matching.stream)
       IN matching' = [pc |-> IF rest = <<>> THEN "wait" ELSE "run",
                       stream |-> rest,
                       offered |-> IF rest = <<>>
                                   THEN <<>>
                                   ELSE Append(matching.offered, Head(matching.stream))]
    /\ UNCHANGED <<backpressure_sent, next_operation_id>>
    /\ UNCHANGED store_vars

\* The scheduler with every worker-pool and client operation except draining;
\* the clients keep their receivers.
Next ==
    \/ \E a \in ActionInfos : AddAction(a)
    \/ \E w \in WorkerIds, ts \in Timestamps, sent \in BOOLEAN : AddWorker(w, ts, sent)
    \/ \E w \in WorkerIds : RemoveWorker(w)
    \/ \E now \in worker_timeout_s..MaxTime : RemoveTimedoutWorkers(now)
    \/ \E w \in WorkerIds, ts \in Timestamps : WorkerKeepAliveReceived(w, ts)
    \/ \E w \in WorkerIds, k \in Keys, stage \in WorkerStages :
          UpdateActionOk(w, k, stage)
    \/ \E w \in WorkerIds, k \in Keys, e \in ErrorCodes : UpdateActionErr(w, k, e)
    \/ \E n \in 1..Len(recently_completed_actions) : CleanRecentlyCompletedActions(n)
    \/ MatcherBegin
    \/ \E sent \in BOOLEAN : MatcherStep(sent)

Spec == Init /\ [][Next]_vars

\* The scheduler as its clients see it: they subscribe, drop their receivers
\* and subscribe again while the actions are matched, retried and completed.
NextClient ==
    \/ \E a \in ActionInfos : AddAction(a)
    \/ \E w \in WorkerIds, sent \in BOOLEAN : AddWorker(w, 0, sent)
    \/ \E w \in WorkerIds : RemoveWorker(w)
    \/ \E w \in WorkerIds, k \in Keys, stage \in WorkerStages :
          UpdateActionOk(w, k, stage)
    \/ \E w \in WorkerIds, k \in Keys : UpdateActionErr(w, k, "Internal")
    \/ \E id \in DOMAIN receivers : ClientDropsReceivers(id)
    \/ MatcherBegin
    \/ \E sent \in BOOLEAN : MatcherStep(sent)

SpecClient == Init /\ [][NextClient]_vars

\* The matching task under fair scheduling: tokio runs a spawned task that is
\* ready, so the task is not left forever at notified() with a permit stored,
\* nor forever inside a pass of do_try_match. The workers the matching task
\* sends RunAction to are connected; a worker may be gone when it is added.
NextLive ==
    \/ \E k \in Keys : AddAction(ActionInfo(k, 0, 1))
    \/ \E w \in WorkerIds, sent \in BOOLEAN : AddWorker(w, 0, sent)
    \/ \E w \in WorkerIds : RemoveWorker(w)
    \/ \E now \in worker_timeout_s..MaxTime : RemoveTimedoutWorkers(now)
    \/ \E w \in WorkerIds, d \in BOOLEAN : SetDrainWorker(w, d)
    \/ \E w \in WorkerIds, k \in Keys : UpdateActionOk(w, k, "Completed")
    \/ MatcherBegin
    \/ MatcherStep(TRUE)

SpecLive ==
    /\ Init
    /\ [][NextLive]_vars
    /\ WF_vars(MatcherBegin)
    /\ WF_vars(MatcherStep(TRUE))

\* The scheduler as its workers see it: they connect, are drained and
\* un-drained, report results, internal errors and backpressure, and leave,
\* while actions of one priority are matched to them.
NextWorkers ==
    \/ \E k \in Keys : AddAction(ActionInfo(k, 0, 1))
    \/ \E w \in WorkerIds, sent \in BOOLEAN : AddWorker(w, 0, sent)
    \/ \E w \in WorkerIds : RemoveWorker(w)
    \/ \E w \in WorkerIds, d \in BOOLEAN : SetDrainWorker(w, d)
    \/ \E w \in WorkerIds, k \in Keys : UpdateActionOk(w, k, "Completed")
    \/ \E w \in WorkerIds, k \in Keys, e \in ErrorCodes : UpdateActionErr(w, k, e)
    \/ MatcherBegin
    \/ \E sent \in BOOLEAN : MatcherStep(sent)

SpecWorkers == Init /\ [][NextWorkers]_vars

\* The queue and its matching passes: actions of three keys are submitted with
\* every priority and insert timestamp and offered to the workers, whose
\* connections may be gone when RunAction is sent.
QueueKeys == Keys \cup {"k3"}

QueueActionInfos ==
    {ActionInfo(k, p, t) : k \in QueueKeys, p \in Priorities, t \in 0..MaxInsertTime}

NextQueue ==
    \/ \E a \in QueueActionInfos : AddActionUpTo(a, MaxOps + 1)
    \/ \E w \in WorkerIds : AddWorker(w, 0, TRUE)
    \/ MatcherBegin
    \/ \E sent \in BOOLEAN : MatcherStep(sent)

SpecQueue == Init /\ [][NextQueue]_vars

\* ------------------------------------------------------------ properties
QueuedIds == {queued_actions[a].id : a \in DOMAIN queued_actions}

ActiveIds == {active_actions[k].awaited_action.id : k \in DOMAIN active_actions}

CompletedIds ==
    {recently_completed_actions[i].id : i \in 1..Len(recently_completed_actions)}

InQueued(k) == \E a \in DOMAIN queued_actions : a.unique_qualifier = k

InActive(k) == k \in DOMAIN active_actions

InCompleted(k) ==
    \E i \in 1..Len(recently_completed_actions) :
        recently_completed_actions[i].unique_qualifier = k

\* The workers of the pool that hold the action in their running set.
Holders(k) ==
    {w \in DOMAIN workers : HashSetContains(workers[w].running_action_infos, k)}

BoolToNat(b) == IF b THEN 1 ELSE 0

\* C2 as stated: no action key is in two of queued_actions, active_actions and
\* recently_completed_actions at the same time.
KeyInOneContainer ==
    \A k \in Keys :
        BoolToNat(InQueued(k)) + BoolToNat(InActive(k)) + BoolToNat(InCompleted(k)) <= 1

\* The number of entries the three containers hold for an operation.
Entries(id) ==
    Cardinality({a \in DOMAIN queued_actions : queued_actions[a].id = id})
    + Cardinality({k \in DOMAIN active_actions : active_actions[k].awaited_action.id = id})
    + Cardinality({i \in 1..Len(recently_completed_actions) :
                     recently_completed_actions[i].id = id})

\* C2, amended: every operation is in at most one of the three containers and
\* no action key is in queued_actions and active_actions at the same time; a
\* key of recently_completed_actions may be queued or active again as a new
\* operation.
OperationInOneContainer ==
    /\ \A id \in 1..(next_operation_id - 1) : Entries(id) <= 1
    /\ \A k \in Keys :
          /\ ~(InQueued(k) /\ InActive(k))
          /\ Cardinality({a \in DOMAIN queued_actions : a.unique_qualifier = k}) <= 1

\* An action completed, and the same key was added and dispatched again.
RelaunchedAfterCompletion ==
    \E k \in Keys : InCompleted(k) /\ InActive(k)

\* C3: queued_actions_set and queued_actions hold the same ActionInfo keys.
QueuedContainersInSync ==
    queued_actions_set = DOMAIN queued_actions

\* A retried action is back in the queue next to a newly added one.
RetriedActionQueued ==
    \E a, b \in DOMAIN queued_actions :
        queued_actions[a].attempts >= 1 /\ queued_actions[b].attempts = 0

\* The AwaitedAction of an operation that is queued or active.
AwaitedOf(id) ==
    IF id \in QueuedIds
    THEN queued_actions[CHOOSE a \in DOMAIN queued_actions : queued_actions[a].id = id]
    ELSE active_actions[CHOOSE k \in DOMAIN active_actions :
                           active_actions[k].awaited_action.id = id].awaited_action

\* The operations queued or active under an action key, and how many entries
\* the two containers hold for the key.
KeyIds(k) ==
    {queued_actions[a].id : a \in {b \in DOMAIN queued_actions : b.unique_qualifier = k}}
        \cup {active_actions[j].awaited_action.id : j \in DOMAIN active_actions \cap {k}}

KeyEntries(k) ==
    Cardinality({a \in DOMAIN queued_actions : a.unique_qualifier = k})
        + Cardinality(DOMAIN active_actions \cap {k})

\* C4: add_action for a key that is queued or active creates no operation: the
\* key keeps its one entry with the same operation id, and the subscription
\* is a receiver of that operation's channel, whose value is left as it is.
JoinCreatesNoOperation ==
    [][\A a \in ActionInfos :
          (AddAction(a) /\ KeyEntries(a.unique_qualifier) >= 1) =>
              /\ next_operation_id' = next_operation_id
              /\ KeyEntries(a.unique_qualifier) = 1
              /\ KeyEntries(a.unique_qualifier)' = 1
              /\ KeyIds(a.unique_qualifier)' = KeyIds(a.unique_qualifier)
              /\ notify_channel' = notify_channel
              /\ \A id \in KeyIds(a.unique_qualifier) : receivers'[id]]_vars

\* A client subscribed to an operation whose last stage was not published
\* because no receiver was left: the channel holds an older stage.
JoinedAfterReceiversDropped ==
    \E id \in LiveIds : receivers[id] /\ notify_channel[id] # AwaitedOf(id).stage

Rank(stage) ==
    CASE stage = "Queued" -> 0
      [] stage = "Executing" -> 1
      [] OTHER -> 2

TerminalStages == {"Completed", "CompletedError"}

\* C6: an operation whose published stage is terminal is neither queued nor
\* active, and no step publishes another stage for it or makes it queued or
\* active again.
TerminalIsFinal ==
    /\ [](\A id \in DOMAIN notify_channel :
            notify_channel[id] \in TerminalStages => id \notin LiveIds)
    /\ [][\A id \in DOMAIN notify_channel :
            notify_channel[id] \in TerminalStages =>
                notify_channel'[id] = notify_channel[id] /\ id \notin LiveIds']_vars

\* An operation ended by retry exhaustion, and an operation added after it is
\* executing.
LaterOperationAfterTerminal ==
    \E id \in DOMAIN notify_channel, k \in DOMAIN active_actions :
        /\ notify_channel[id] = "CompletedError"
        /\ active_actions[k].awaited_action.id > id

\* Some worker of the pool can accept work and satisfies the platform
\* properties of the action.
EligibleWorkerExists(k) == \E w \in DOMAIN workers : Eligible(St, w, k)

Dispatched(k) ==
    InActive(k) /\ active_actions[k].awaited_action.stage = "Executing"

\* C7: while the matching task waits, a queued action that has an eligible
\* worker has a change notification pending; and under fair scheduling of the
\* matching task a queued action that has an eligible worker is dispatched,
\* unless the pool stops having an eligible worker for it.
QueuedActionIsDispatched ==
    /\ [](\A k \in Keys :
            (matching.pc = "wait" /\ InQueued(k) /\ EligibleWorkerExists(k))
                => tasks_change_notify)
    /\ \A k \in Keys :
          (InQueued(k) /\ EligibleWorkerExists(k))
              ~> (Dispatched(k) \/ ~EligibleWorkerExists(k))

\* An action is executing on a second worker after its first worker was
\* removed from the pool.
RedispatchedAfterEviction ==
    \E k \in DOMAIN active_actions :
        /\ Dispatched(k)
        /\ active_actions[k].awaited_action.run_actions >= 2
        /\ active_actions[k].awaited_action.last_error = NoError

\* C8: in a run without backpressure errors every RunAction sent for an
\* operation counts as an attempt and at most max_job_retries are sent; an
\* operation whose attempt fails is queued again, with Queued published, only
\* while attempts < max_job_retries, and ends with the error result published
\* only when attempts >= max_job_retries.
RetryRule ==
    /\ [](backpressure_sent = 0 =>
            \A id \in LiveIds :
                /\ AwaitedOf(id).run_actions = AwaitedOf(id).attempts
                /\ AwaitedOf(id).run_actions <= max_job_retries
                /\ id \in QueuedIds => AwaitedOf(id).attempts < max_job_retries)
    /\ [][backpressure_sent' = 0 =>
            \A id \in ActiveIds :
                /\ id \in QueuedIds' =>
                      /\ AwaitedOf(id).attempts < max_job_retries
                      /\ AwaitedOf(id)'.stage = "Queued"
                      /\ notify_channel'[id] = "Queued"
                /\ (id \notin LiveIds' /\ id \notin CompletedIds') =>
                      /\ AwaitedOf(id).attempts >= max_job_retries
                      /\ notify_channel'[id] = "CompletedError"]_vars

\* The only operation of the run ended by retry exhaustion, without any
\* backpressure error.
ExhaustedWithoutBackpressure ==
    /\ backpressure_sent = 0
    /\ next_operation_id = 2
    /\ notify_channel[1] = "CompletedError"

\* What update_action with Err(e) does to the active action of the key, given
\* the comparison that decides between the terminal result and the queue.
ErrUpdateFollows(AttemptsExhausted(_, _)) ==
    \A w \in WorkerIds, k \in Keys, e \in ErrorCodes :
        (InActive(k) /\ UpdateActionErr(w, k, e)) =>
            LET entry == active_actions[k]
                id == entry.awaited_action.id
            IN IF AttemptsExhausted(entry.awaited_action, e)
               THEN /\ id \notin LiveIds'
                    /\ id \notin CompletedIds'
                    /\ receivers[id] => notify_channel'[id] = "CompletedError"
               ELSE /\ entry.action_info \in DOMAIN queued_actions'
                    /\ queued_actions'[entry.action_info].id = id
                    /\ queued_actions'[entry.action_info].stage = "Queued"
                    /\ receivers[id] => notify_channel'[id] = "Queued"

AttemptsAbove(awaited_action, e) == awaited_action.attempts > max_job_retries

\* C9 as stated: update_action with Err(e) completes the action terminally
\* only when attempts > max_job_retries, and otherwise re-queues it with stage
\* Queued under the ActionInfo, so the priority, it was dispatched with.
TerminalWhenAttemptsAbove == [][ErrUpdateFollows(AttemptsAbove)]_vars

AttemptsReached(awaited_action, e) ==
    awaited_action.attempts - BoolToNat(e = "ResourceExhausted") >= max_job_retries

\* C9, amended: the action is completed terminally when attempts, less one for
\* a backpressure error, is >= max_job_retries, and is otherwise re-queued.
TerminalWhenAttemptsReached == [][ErrUpdateFollows(AttemptsReached)]_vars

\* An action is back in the queue after the one internal error it survives.
SurvivedOneInternalError ==
    \E id \in QueuedIds :
        /\ AwaitedOf(id).last_error = "Internal"
        /\ AwaitedOf(id).attempts = max_job_retries - 1

\* C10: an operation that stops being queued or active, by a worker's result
\* or by retry exhaustion, has attempts <= max_job_retries + 1 at that step.
AttemptsAtTermination ==
    [][\A id \in LiveIds :
          id \notin LiveIds' => AwaitedOf(id).attempts <= max_job_retries + 1]_vars

\* An action completed by its worker in a run with a backpressure error.
CompletedAfterBackpressure ==
    /\ backpressure_sent >= 1
    /\ \E i \in 1..Len(recently_completed_actions) :
          recently_completed_actions[i].stage = "Completed"

\* C11: a backpressure (ResourceExhausted) error reported by the worker the
\* action is recorded on puts the action back in the queue, never ends it, with
\* attempts one less; attempts stay as they are while the action is queued and
\* grow by one when it is dispatched, so that the next attempt runs with the
\* count of the attempt that failed.
BackpressureKeepsRetryBudget ==
    [][/\ \A w \in WorkerIds, k \in Keys :
            (/\ backpressure_sent' = backpressure_sent + 1
             /\ InActive(k)
             /\ active_actions[k].awaited_action.worker_id = w
             /\ UpdateActionErr(w, k, "ResourceExhausted")) =>
                LET entry == active_actions[k]
                IN /\ entry.action_info \in DOMAIN queued_actions'
                   /\ queued_actions'[entry.action_info].id = entry.awaited_action.id
                   /\ queued_actions'[entry.action_info].stage = "Queued"
                   /\ queued_actions'[entry.action_info].attempts =
                         entry.awaited_action.attempts - 1
       /\ \A id \in QueuedIds :
            /\ id \in QueuedIds' => AwaitedOf(id)'.attempts = AwaitedOf(id).attempts
            /\ id \in ActiveIds' => AwaitedOf(id)'.attempts = AwaitedOf(id).attempts + 1]_vars

\* An action runs its second attempt, counted as the first, after its worker
\* reported backpressure.
RedispatchedAfterBackpressure ==
    \E k \in DOMAIN active_actions :
        LET a == active_actions[k].awaited_action
        IN /\ a.last_error = "ResourceExhausted"
           /\ a.stage = "Executing"
           /\ a.run_actions = 2
           /\ a.attempts = 1

\* C12: an operation that stops being active without going back to the queue
\* has reached a terminal stage, by its worker's result or by retry
\* exhaustion, and is then in recently_completed_actions with that stage,
\* whether or not a receiver of its channel is left.
TerminalIsArchived ==
    [][\A id \in ActiveIds :
          id \notin LiveIds' =>
              \E i \in 1..Len(recently_completed_actions') :
                  /\ recently_completed_actions'[i].id = id
                  /\ recently_completed_actions'[i].stage \in TerminalStages]_vars

\* C13: update_action with Ok(stage) from a worker other than the one recorded
\* on the active entry of the key returns an error and evicts the reporting
\* worker; the entry stays in active_actions as it was and nothing is
\* published on the channel of its operation.
WrongWorkerResultRejected ==
    [][\A w \in WorkerIds, k \in Keys, stage \in WorkerStages :
          (/\ InActive(k)
           /\ active_actions[k].awaited_action.worker_id # w
           /\ UpdateActionOk(w, k, stage)) =>
              /\ ~update_operation_ok(St, k, w, stage).ok
              /\ w \notin DOMAIN workers'
              /\ InActive(k)'
              /\ active_actions'[k] = active_actions[k]
              /\ notify_channel'[active_actions[k].awaited_action.id] =
                    notify_channel[active_actions[k].awaited_action.id]]_vars

\* C14: in every state, update_action with Ok(stage) for a key that is not in
\* active_actions returns an error, leaves the reporting worker out of the
\* pool and none of the actions it ran in active_actions, and fails no
\* assertion.
MissingActionEvictsWorker ==
    \A w \in WorkerIds, k \in Keys, stage \in WorkerStages :
        ~InActive(k) =>
            LET r == update_operation_ok(St, k, w, stage)
                running == IF w \in DOMAIN workers
                           THEN workers[w].running_action_infos
                           ELSE {}
            IN /\ ~r.ok
               /\ w \notin DOMAIN r.s.workers
               /\ \A a \in running : a.unique_qualifier \notin DOMAIN r.s.active_actions
               /\ ~r.s.panicked

\* C15: in every state, for every `now`, remove_timedout_workers(now) leaves
\* in the pool exactly the workers whose last_update_timestamp is newer than
\* now - worker_timeout_s.
TimedOutWorkersRemoved ==
    \A now \in worker_timeout_s..MaxTime :
        LET after == remove_timedout_workers(St, now)
        IN \A w \in DOMAIN workers :
              w \in DOMAIN after.workers
                  <=> workers[w].last_update_timestamp > now - worker_timeout_s

\* C16: when the send of RunAction to the worker found for a queued action
\* fails in a matching pass, the worker leaves the pool and the action stays
\* in the queue under the same operation, at stage Queued, with its attempts
\* and its published stage as they were; nothing makes it active.
FailedDispatchKeepsActionQueued ==
    [][(/\ matching.pc = "run"
        /\ Head(matching.stream).action_info \in DOMAIN queued_actions
        /\ find_worker_for_action(
               St, Head(matching.stream).action_info.unique_qualifier) # NoWorker
        /\ MatcherStep(FALSE)) =>
            LET action_info == Head(matching.stream).action_info
                worker_id == find_worker_for_action(St, action_info.unique_qualifier)
                queued == queued_actions[action_info]
            IN /\ worker_id \notin DOMAIN workers'
               /\ action_info \in DOMAIN queued_actions'
               /\ action_info \in queued_actions_set'
               /\ queued_actions'[action_info] = queued
               /\ queued.stage = "Queued"
               /\ action_info.unique_qualifier \notin DOMAIN active_actions'
               /\ notify_channel'[queued.id] = notify_channel[queued.id]
               /\ notify_channel[queued.id] # "Executing"
               /\ tasks_change_notify']_vars

\* In the middle of a matching pass the send of RunAction for an action has
\* failed: its worker was evicted, which left the change notification, and the
\* action, already offered in this pass, is still queued and was never sent.
FailedSendInPass ==
    /\ matching.pc = "run"
    /\ tasks_change_notify
    /\ \E a \in DOMAIN queued_actions :
          /\ \A i \in 1..Len(matching.stream) : matching.stream[i].action_info # a
          /\ queued_actions[a].stage = "Queued"
          /\ queued_actions[a].run_actions = 0
          /\ notify_channel[queued_actions[a].id] = "Queued"

\* C17: the worker an action is dispatched to is in the pool at the dispatch,
\* is neither paused nor draining, and its platform properties satisfy those
\* of the action.
RunActionOnlyToEligibleWorker ==
    [][\A k \in Keys :
          (InQueued(k) /\ InActive(k)') =>
              LET w == active_actions'[k].awaited_action.worker_id
              IN /\ w \in DOMAIN workers
                 /\ ~workers[w].is_paused
                 /\ ~workers[w].is_draining
                 /\ is_satisfied_by(ActionPlatformProperties(k),
                                    WorkerPlatformProperties(w))
                 /\ w \in DOMAIN workers'
                 /\ HashSetContains(workers'[w].running_action_infos, k)]_vars

\* A matching pass has left an action in the queue although both workers are
\* in the pool: one is paused, with an action executing on it, the other is
\* draining with nothing to run.
QueuedPastPausedAndDraining ==
    /\ matching.pc = "wait"
    /\ ~tasks_change_notify
    /\ queued_actions # <<>>
    /\ \E k \in DOMAIN active_actions, w \in DOMAIN workers :
          /\ active_actions[k].awaited_action.stage = "Executing"
          /\ active_actions[k].awaited_action.worker_id = w
          /\ workers[w].is_paused
          /\ ~workers[w].is_draining
    /\ \E w \in DOMAIN workers :
          /\ workers[w].is_draining
          /\ ~workers[w].is_paused
          /\ workers[w].running_action_infos = {}

\* C18 as stated: an action is not dispatched to a worker in a matching pass
\* while a queued action that precedes it in the queue order, and that the
\* worker could accept, has not been offered a worker in that pass.
DispatchInQueueOrder ==
    [][\A k \in QueueKeys :
          (InQueued(k) /\ k \in DOMAIN active_actions') =>
              LET action_info == active_actions'[k].action_info
                  worker_id == active_actions'[k].awaited_action.worker_id
              IN \A a \in DOMAIN queued_actions :
                    (/\ ActionInfoLess(action_info, a)
                     /\ Eligible(St, worker_id, a.unique_qualifier)) =>
                        \E i \in 1..Len(matching.offered) :
                            matching.offered[i].action_info = a]_vars

\* C18, amended: the stream of a matching pass holds the actions that were
\* queued when the pass began, in queue order, and they are offered in that
\* order: an action is not dispatched while an action that precedes it is
\* still waiting in the stream. An action put back in the queue during the
\* pass is not in the stream.
DispatchInStreamOrder ==
    /\ [](\A i, j \in 1..Len(matching.stream) :
            i < j => ActionInfoLess(matching.stream[j].action_info,
                                    matching.stream[i].action_info))
    /\ [][/\ MatcherBegin =>
               {matching'.stream[i].action_info : i \in 1..Len(matching'.stream)}
                   = DOMAIN queued_actions
          /\ \A k \in QueueKeys :
               (InQueued(k) /\ k \in DOMAIN active_actions') =>
                   /\ matching.pc = "run"
                   /\ Head(matching.stream).action_info = active_actions'[k].action_info
                   /\ \A i \in 1..Len(matching.stream) :
                         ~ActionInfoLess(active_actions'[k].action_info,
                                         matching.stream[i].action_info)]_vars

\* In the middle of a matching pass an action that ran before is back in the
\* queue, was not in the stream of the pass, and precedes the action that is
\* offered next.
RequeuedDuringPass ==
    /\ matching.pc = "run"
    /\ \E a \in DOMAIN queued_actions :
          /\ queued_actions[a].attempts >= 1
          /\ \A i \in 1..Len(matching.stream) : matching.stream[i].action_info # a
          /\ \A i \in 1..Len(matching.offered) : matching.offered[i].action_info # a
          /\ ActionInfoLess(Head(matching.stream).action_info, a)

\* The place of the entry e in the stream of a matching pass over queued.
StreamPosition(queued, e) ==
    LET stream == filter_operations(queued)
    IN CHOOSE i \in 1..Len(stream) : stream[i].action_info = e

\* C19: when add_action joins an action that is queued, the queued entry's
\* priority becomes the greater of its priority and the new one and never
\* decreases, its insert_timestamp and its operation stay those of the first
\* submission, and in the queue order the entry comes before every entry of
\* lower priority and after every entry of higher priority.
JoinQueuedRaisesPriority ==
    LockFree =>
        \A a \in QueueActionInfos :
            LET k == a.unique_qualifier IN
            (k \notin DOMAIN active_actions /\ HashSetContains(queued_actions_set, k)) =>
                LET old == CHOOSE e \in queued_actions_set : e.unique_qualifier = k
                    r == add_action(St, a, next_operation_id)
                    new == [old EXCEPT !.priority = Max(old.priority, a.priority)]
                    queued == r.s.queued_actions
                IN /\ r.ok
                   /\ HashSetGet(r.s.queued_actions_set, k) = {new}
                   /\ {e \in DOMAIN queued : e.unique_qualifier = k} = {new}
                   /\ new.priority >= old.priority
                   /\ new.priority >= a.priority
                   /\ new.insert_timestamp = old.insert_timestamp
                   /\ queued[new].id = queued_actions[old].id
                   /\ r.sub = queued_actions[old].id
                   /\ DOMAIN queued \ {new} = DOMAIN queued_actions \ {old}
                   /\ \A b \in DOMAIN queued \ {new} :
                         /\ b.priority < new.priority =>
                               StreamPosition(queued, new) < StreamPosition(queued, b)
                         /\ b.priority > new.priority =>
                               StreamPosition(queued, b) < StreamPosition(queued, new)

\* A queued action behind an older one of the same priority that a join of
\* higher priority moves ahead of it.
JoinMovesAhead ==
    /\ LockFree
    /\ \E a \in QueueActionInfos, old \in DOMAIN queued_actions, b \in DOMAIN queued_actions :
          /\ a.unique_qualifier = old.unique_qualifier
          /\ b # old
          /\ a.priority > old.priority
          /\ a.insert_timestamp # old.insert_timestamp
          /\ StreamPosition(queued_actions, b) < StreamPosition(queued_actions, old)
          /\ LET queued == add_action(St, a, next_operation_id).s.queued_actions
                 new == [old EXCEPT !.priority = a.priority]
             IN /\ new \in DOMAIN queued
                /\ StreamPosition(queued, new) < StreamPosition(queued, b)

\* The worker recorded for the active action of key k.
ActiveWorker(k) == active_actions[k].awaited_action.worker_id

\* C20: every action in active_actions has a worker_id set and that worker is
\* in the worker pool; a step that takes a worker out of the pool leaves none
\* of the actions it was running, and none recorded on it, in active_actions.
ActiveActionsHaveWorker ==
    /\ [](\A k \in DOMAIN active_actions :
              ActiveWorker(k) # NoWorker /\ ActiveWorker(k) \in DOMAIN workers)
    /\ [][\A w \in DOMAIN workers :
              w \notin DOMAIN workers' =>
                  /\ \A a \in workers[w].running_action_infos :
                        a.unique_qualifier \notin DOMAIN active_actions'
                  /\ \A k \in DOMAIN active_actions' :
                        active_actions'[k].awaited_action.worker_id # w]_vars

\* An action is active on a worker of the pool while another one is back in
\* the queue because the worker it ran on was evicted.
ActiveBesideEvicted ==
    /\ \E k \in DOMAIN active_actions : ActiveWorker(k) \in DOMAIN workers
    /\ \E e \in DOMAIN queued_actions :
          /\ queued_actions[e].worker_id # NoWorker
          /\ queued_actions[e].worker_id \notin DOMAIN workers
          /\ queued_actions[e].attempts > 0
          /\ queued_actions[e].last_error = NoError

\* C36: update_action with Err(e) from a worker other than the one recorded
\* on the active entry of the key leaves the entry in active_actions as it
\* was, with its worker, stage, attempts and last error, puts nothing in the
\* queue for the key and publishes nothing on the channel of its operation.
WrongWorkerErrLeavesAction ==
    [][\A w \in WorkerIds, k \in Keys, e \in ErrorCodes :
          (/\ InActive(k)
           /\ active_actions[k].awaited_action.worker_id # NoWorker
           /\ active_actions[k].awaited_action.worker_id # w
           /\ UpdateActionErr(w, k, e)) =>
              /\ InActive(k)'
              /\ active_actions'[k] = active_actions[k]
              /\ ~InQueued(k)'
              /\ notify_channel'[active_actions[k].awaited_action.id] =
                    notify_channel[active_actions[k].awaited_action.id]]_vars

\* ===================================================================
\* The byte channel of buf_channel.rs and the store drivers built on it
\* ===================================================================

\* Stands for u64::MAX, the close_after_size of a new pair: above the length
\* of every stream sent here.
U64_MAX == 1000000

\* mpsc::channel(2)
CHANNEL_CAPACITY == 2

WriterDroppedError == "Writer was dropped before EOF was sent"

\* Bytes: a sequence of byte values. The bytes of a stream are numbered, so
\* that a lost, repeated or misplaced byte shows.
Bytes(first, len) == [i \in 1..len |-> first + i - 1]

slice(buf, start, end) == SubSeq(buf, start + 1, end)

\* Result<Bytes, Error>
OkBytes(chunk) == [ok |-> TRUE, chunk |-> chunk, err |-> ""]

ErrBytes(err) == [ok |-> FALSE, chunk |-> <<>>, err |-> err]

\* make_buf_channel_pair: the two halves and what lies between them.
\*   tx               DropCloserWriteHalf.tx.is_some()
\*   writer           the write half, with its close_rx, has not been dropped
\*   close_rx         what the oneshot channel holds: "Pending", "Ok", or
\*                    "Closed" when close_tx was dropped unused
\*   drop_task        the task spawned by drop() still holds the sender
\*   queue            the messages in the mpsc channel
\*   rx               the read half has not been dropped
\*   partial          DropCloserReadHalf.partial, <<>> for None
\*   close_tx         DropCloserReadHalf.close_tx.is_some()
make_buf_channel_pair ==
    [tx |-> TRUE, bytes_written |-> 0, writer |-> TRUE, close_rx |-> "Pending",
     drop_task |-> FALSE, queue |-> <<>>,
     rx |-> TRUE, partial |-> <<>>, close_tx |-> TRUE, close_after_size |-> U64_MAX]

\* mpsc::Sender::send completes: there is room, or the receiver is gone.
mpsc_send_ready(c) == ~c.rx \/ Len(c.queue) < CHANNEL_CAPACITY

\* mpsc::Receiver::recv completes: a message is queued, or every sender is gone.
mpsc_recv_ready(c) == c.queue # <<>> \/ (~c.tx /\ ~c.drop_task)

\* DropCloserWriteHalf::send returns.
send_ready(c, buf) == ~c.tx \/ buf = <<>> \/ mpsc_send_ready(c)

\* A send that counts the bytes and does not put the chunk in the channel.
send_chunk_lost(c, buf) ==
    IF ~c.tx
    THEN [c |-> c, ok |-> FALSE, panic |-> FALSE]
    ELSE IF buf = <<>>
    THEN [c |-> c, ok |-> FALSE, panic |-> TRUE]
    ELSE IF c.rx
    THEN [c |-> [c EXCEPT !.bytes_written = @ + Len(buf)], ok |-> TRUE, panic |-> FALSE]
    ELSE [c |-> [c EXCEPT !.tx = FALSE, !.bytes_written = @ + Len(buf)],
          ok |-> FALSE, panic |-> FALSE]

\* DropCloserWriteHalf::send
send(c, buf) ==
    IF ~c.tx
    THEN \* Tried to send while stream is closed.
         [c |-> c, ok |-> FALSE, panic |-> FALSE]
    ELSE IF buf = <<>>
    THEN \* assert!(buf_len != 0)
         [c |-> c, ok |-> FALSE, panic |-> TRUE]
    ELSE IF c.rx
    THEN [c |-> [c EXCEPT !.queue = Append(@, OkBytes(buf)),
                          !.bytes_written = @ + Len(buf)],
          ok |-> TRUE, panic |-> FALSE]
    ELSE \* The receiver is gone: the channel is closed to keep drop() from
         \* spawning a task.
         [c |-> [c EXCEPT !.tx = FALSE, !.bytes_written = @ + Len(buf)],
          ok |-> FALSE, panic |-> FALSE]

\* send_eof up to its await: the sender is dropped.
send_eof_begin(c) ==
    IF ~c.tx
    THEN \* assert!(self.tx.is_some())
         [c |-> c, panic |-> TRUE]
    ELSE [c |-> [c EXCEPT !.tx = FALSE], panic |-> FALSE]

\* The oneshot receiver of send_eof completes.
close_rx_ready(c) == c.close_rx # "Pending"

\* What send_eof returns: the value sent on close_tx, or an error when close_tx
\* was dropped.
send_eof_result(c) == c.close_rx = "Ok"

\* Drop for DropCloserWriteHalf
drop_write_half(c) ==
    IF c.tx
    THEN [c EXCEPT !.tx = FALSE, !.writer = FALSE, !.drop_task = TRUE]
    ELSE [c EXCEPT !.writer = FALSE]

\* The task spawned by drop(): tx.send(Err(..)).await, then the sender is dropped.
drop_task_run(c) ==
    [c EXCEPT !.drop_task = FALSE,
              !.queue = IF c.rx THEN Append(@, ErrBytes(WriterDroppedError)) ELSE @]

\* close_tx is taken and dropped with nothing sent on it.
close_tx_dropped_unsent(c) ==
    [c |-> [c EXCEPT !.close_tx = FALSE,
                     !.close_rx = IF @ = "Pending" THEN "Closed" ELSE @],
     ok |-> c.writer]

\* oneshot::Sender::send(Ok(())) on close_tx: it fails when close_rx is gone.
close_tx_send(c) ==
    IF c.writer
    THEN [c |-> [c EXCEPT !.close_tx = FALSE, !.close_rx = "Ok"], ok |-> TRUE]
    ELSE [c |-> [c EXCEPT !.close_tx = FALSE], ok |-> FALSE]

\* DropCloserReadHalf::recv returns.
recv_ready(c) == c.partial # <<>> \/ mpsc_recv_ready(c)

\* A recv that takes an error in the channel for the end of the stream.
recv_error_as_eof(c) ==
    LET from_partial == c.partial # <<>>
        maybe_chunk == IF from_partial THEN OkBytes(c.partial)
                       ELSE IF c.queue # <<>> THEN Head(c.queue)
                       ELSE ErrBytes("None")
        c1 == IF from_partial THEN [c EXCEPT !.partial = <<>>]
              ELSE IF c.queue # <<>> THEN [c EXCEPT !.queue = Tail(@)]
              ELSE c
    IN IF maybe_chunk.ok
       THEN [c |-> [c1 EXCEPT !.close_after_size = @ - Len(maybe_chunk.chunk)],
             res |-> maybe_chunk, panic |-> FALSE]
       ELSE IF c1.close_tx
            THEN [c |-> close_tx_send(c1).c, res |-> OkBytes(<<>>), panic |-> FALSE]
            ELSE [c |-> c1, res |-> OkBytes(<<>>), panic |-> FALSE]

\* DropCloserReadHalf::recv
recv(c) ==
    LET from_partial == c.partial # <<>>
        \* None stands for the closed and empty channel.
        none == [ok |-> FALSE, chunk |-> <<>>, err |-> "None"]
        maybe_chunk == IF from_partial THEN OkBytes(c.partial)
                       ELSE IF c.queue # <<>> THEN Head(c.queue)
                       ELSE none
        c1 == IF from_partial THEN [c EXCEPT !.partial = <<>>]
              ELSE IF c.queue # <<>> THEN [c EXCEPT !.queue = Tail(@)]
              ELSE c
    IN IF maybe_chunk.ok
       THEN LET chunk == maybe_chunk.chunk
                chunk_len == Len(chunk)
            IN IF chunk_len = 0 \/ c1.close_after_size < chunk_len
               THEN \* assert!(chunk_len != 0), assert!(close_after_size >= chunk_len)
                    [c |-> c1, res |-> ErrBytes("panic"), panic |-> TRUE]
               ELSE LET c2 == [c1 EXCEPT !.close_after_size = @ - chunk_len]
                    IN IF c2.close_after_size = 0
                       THEN IF ~c2.close_tx
                            THEN \* assert!(self.close_tx.is_some())
                                 [c |-> c2, res |-> ErrBytes("panic"), panic |-> TRUE]
                            ELSE LET sent == close_tx_send(c2)
                                 IN [c |-> sent.c,
                                     res |-> IF sent.ok THEN OkBytes(chunk)
                                             ELSE ErrBytes("Failed to send closing ok message to write with size"),
                                     panic |-> FALSE]
                       ELSE [c |-> c2, res |-> OkBytes(chunk), panic |-> FALSE]
       ELSE IF maybe_chunk = none
       THEN \* None is a safe EOF received.
            IF c1.close_tx
            THEN LET sent == close_tx_send(c1)
                 IN [c |-> sent.c,
                     res |-> IF sent.ok THEN OkBytes(<<>>)
                             ELSE ErrBytes("Failed to send closing ok message to write"),
                     panic |-> FALSE]
            ELSE [c |-> c1, res |-> OkBytes(<<>>), panic |-> FALSE]
       ELSE [c |-> c1, res |-> maybe_chunk, panic |-> FALSE]

\* DropCloserReadHalf::set_close_after_size
set_close_after_size(c, size) == [c EXCEPT !.close_after_size = size]

\* A drop of the read half that tells the writer the stream was closed cleanly.
drop_read_half_closing_ok(c) ==
    [c EXCEPT !.rx = FALSE, !.queue = <<>>, !.partial = <<>>, !.close_tx = FALSE,
              !.close_rx = IF c.close_tx /\ @ = "Pending" THEN "Ok" ELSE @]

\* The read half is dropped: the receiver with what is queued, the partial
\* chunk, and close_tx if it is still there.
drop_read_half(c) ==
    [c EXCEPT !.rx = FALSE, !.queue = <<>>, !.partial = <<>>, !.close_tx = FALSE,
              !.close_rx = IF c.close_tx /\ @ = "Pending" THEN "Closed" ELSE @]

\* A take that drops what a chunk holds beyond the wanted size.
populate_partial_dropping_rest(current_size, desired_size, chunk, partial) ==
    IF current_size + Len(chunk) <= desired_size
    THEN [chunk |-> chunk, partial |-> partial, panic |-> FALSE]
    ELSE [chunk |-> slice(chunk, 0, desired_size - current_size),
          partial |-> partial, panic |-> FALSE]

\* populate_partial_if_needed of take: the chunk cut to what is still wanted
\* and the partial that holds the rest.
populate_partial_if_needed(current_size, desired_size, chunk, partial) ==
    IF current_size + Len(chunk) <= desired_size
    THEN [chunk |-> chunk, partial |-> partial, panic |-> FALSE]
    ELSE IF partial # <<>>
    THEN \* assert!(partial.is_none())
         [chunk |-> chunk, partial |-> partial, panic |-> TRUE]
    ELSE LET at == desired_size - current_size
         IN [chunk |-> slice(chunk, 0, at),
             partial |-> slice(chunk, at, Len(chunk)),
             panic |-> FALSE]

\* The local variables of a take(size) that has not received anything yet.
take_begin(size) == [pc |-> "first", size |-> size, output |-> <<>>]

\* DropCloserReadHalf::take, one recv().await at a time: t holds where it is
\* and what it has put together; done tells that it returns res.
take_step(c, t) ==
    LET r == recv(c)
        chunk == r.res.chunk
    IN IF r.panic
       THEN [c |-> r.c, t |-> t, done |-> TRUE, res |-> r.res, panic |-> TRUE]
       ELSE IF ~r.res.ok
       THEN \* recv().await.err_tip(..)?
            [c |-> r.c, t |-> t, done |-> TRUE, res |-> r.res, panic |-> FALSE]
       ELSE IF t.pc = "first"
       THEN LET p == populate_partial_if_needed(0, t.size, chunk, r.c.partial)
                c1 == [r.c EXCEPT !.partial = p.partial]
                first_chunk == p.chunk
            IN IF p.panic
               THEN [c |-> r.c, t |-> t, done |-> TRUE, res |-> ErrBytes("panic"),
                     panic |-> TRUE]
               ELSE IF Len(first_chunk) = 0 \/ Len(first_chunk) >= t.size
               THEN [c |-> c1, t |-> t, done |-> TRUE, res |-> OkBytes(first_chunk),
                     panic |-> ~(Len(first_chunk) = 0 \/ Len(first_chunk) = t.size)]
               ELSE [c |-> c1, t |-> [t EXCEPT !.pc = "second", !.output = first_chunk],
                     done |-> FALSE, res |-> OkBytes(<<>>), panic |-> FALSE]
       ELSE IF t.pc = "second"
       THEN IF Len(chunk) = 0
            THEN [c |-> r.c, t |-> t, done |-> TRUE, res |-> OkBytes(t.output),
                  panic |-> ~(Len(t.output) <= t.size)]
            ELSE LET p == populate_partial_if_needed(Len(t.output), t.size, chunk, r.c.partial)
                 IN IF p.panic
                    THEN [c |-> r.c, t |-> t, done |-> TRUE, res |-> ErrBytes("panic"),
                          panic |-> TRUE]
                    ELSE [c |-> [r.c EXCEPT !.partial = p.partial],
                          t |-> [t EXCEPT !.pc = "loop", !.output = @ \o p.chunk],
                          done |-> FALSE, res |-> OkBytes(<<>>), panic |-> FALSE]
       ELSE \* The loop after the first two chunks.
            IF Len(chunk) = 0
            THEN [c |-> r.c, t |-> t, done |-> TRUE, res |-> OkBytes(t.output),
                  panic |-> FALSE]
            ELSE LET p == populate_partial_if_needed(Len(t.output), t.size, chunk, r.c.partial)
                     output == t.output \o p.chunk
                 IN IF p.panic
                    THEN [c |-> r.c, t |-> t, done |-> TRUE, res |-> ErrBytes("panic"),
                          panic |-> TRUE]
                    ELSE IF Len(output) >= t.size
                    THEN [c |-> [r.c EXCEPT !.partial = p.partial], t |-> t,
                          done |-> TRUE, res |-> OkBytes(output),
                          panic |-> Len(output) # t.size]
                    ELSE [c |-> [r.c EXCEPT !.partial = p.partial],
                          t |-> [t EXCEPT !.output = output],
                          done |-> FALSE, res |-> OkBytes(<<>>), panic |-> FALSE]

\* ------------------------------------------- one channel, a writer, a reader
\* The length of the stream the writer has to send.
MaxBytes == 3

\* The longest chunk the writer sends.
MaxChunk == 2

\* The calls of recv and take the reader makes at most.
MaxRecvs == 5

\* A channel pair whose write half is held by a task that calls send and
\* send_eof and whose read half is held by a task that calls recv and take;
\* either task may drop its half at any await.
\*   writer.pc   "run", "send_eof" (at the await of send_eof), "done" (send_eof
\*               returned), "dropped", "panicked"; sent_eof: send_eof was called
\*   reader.pc   "new", "run", "take" (inside a take), "dropped", "panicked"
InitChannel ==
    /\ SchedulerInit
    /\ channels = [pipe |-> make_buf_channel_pair]
    /\ tasks = [writer |-> [pc |-> "run", next |-> 1, sent_eof |-> FALSE],
                reader |-> [pc |-> "new", take |-> take_begin(0), calls |-> 0]]
    /\ stores = <<>>
    /\ history = [sent |-> <<>>,          \* the chunks of the sends that returned Ok
                  send_failed |-> FALSE,  \* a send returned an error
                  send_eof |-> "None",    \* what send_eof returned: "Ok" or "Err"
                  close_after_size |-> U64_MAX,  \* what the reader has set
                  received |-> <<>>]      \* the calls of the reader that returned:
                                          \* the operation, its size, the result,
                                          \* whether it met the end of the stream

\* eof: the call returned because a recv() met the end of the stream.
Received(op, size, res, eof) == [op |-> op, size |-> size, res |-> res, eof |-> eof]

\* tx.send(chunk).await returns for the next len bytes of the stream.
WriterSend(len) ==
    /\ tasks.writer.pc = "run"
    /\ tasks.writer.next + len - 1 <= MaxBytes
    /\ LET buf == Bytes(tasks.writer.next, len) IN
       /\ send_ready(channels.pipe, buf)
       /\ \E r \in {send(channels.pipe, buf)} :
             /\ channels' = [channels EXCEPT !.pipe = r.c]
             /\ tasks' = [tasks EXCEPT !.writer.pc = IF r.panic THEN "panicked" ELSE @,
                                       !.writer.next = IF r.ok THEN @ + len ELSE @]
             /\ history' = [history EXCEPT
                               !.sent = IF r.ok THEN Append(@, buf) ELSE @,
                               !.send_failed = @ \/ (~r.ok /\ ~r.panic)]
    /\ UNCHANGED <<scheduler_vars, stores>>

\* tx.send_eof() is called and reaches its await.
WriterSendEof ==
    /\ tasks.writer.pc = "run"
    /\ \E r \in {send_eof_begin(channels.pipe)} :
          /\ channels' = [channels EXCEPT !.pipe = r.c]
          /\ tasks' = [tasks EXCEPT !.writer.pc = IF r.panic THEN "panicked" ELSE "send_eof",
                                    !.writer.sent_eof = TRUE]
    /\ UNCHANGED <<scheduler_vars, stores, history>>

\* send_eof returns.
WriterSendEofReturns ==
    /\ tasks.writer.pc = "send_eof"
    /\ close_rx_ready(channels.pipe)
    /\ tasks' = [tasks EXCEPT !.writer.pc = "done"]
    /\ history' = [history EXCEPT
                      !.send_eof = IF send_eof_result(channels.pipe) THEN "Ok" ELSE "Err"]
    /\ UNCHANGED <<scheduler_vars, stores, channels>>

\* The write half is dropped: by its owner, or with the future that holds it.
WriterDrop ==
    /\ tasks.writer.pc \in {"run", "send_eof", "done"}
    /\ channels' = [channels EXCEPT !.pipe = drop_write_half(@)]
    /\ tasks' = [tasks EXCEPT !.writer.pc = "dropped"]
    /\ UNCHANGED <<scheduler_vars, stores, history>>

\* The task spawned by the drop of the write half runs.
DropTaskRun ==
    /\ channels.pipe.drop_task
    /\ mpsc_send_ready(channels.pipe)
    /\ channels' = [channels EXCEPT !.pipe = drop_task_run(@)]
    /\ UNCHANGED <<scheduler_vars, stores, tasks, history>>

ReaderSetCloseAfterSize(size) ==
    /\ tasks.reader.pc = "new"
    /\ channels' = [channels EXCEPT !.pipe = set_close_after_size(@, size)]
    /\ tasks' = [tasks EXCEPT !.reader.pc = "run"]
    /\ history' = [history EXCEPT !.close_after_size = size]
    /\ UNCHANGED <<scheduler_vars, stores>>

\* rx.recv().await returns.
ReaderRecv ==
    /\ tasks.reader.pc \in {"new", "run"}
    /\ tasks.reader.calls < MaxRecvs
    /\ recv_ready(channels.pipe)
    /\ \E r \in {recv(channels.pipe)} :
          /\ channels' = [channels EXCEPT !.pipe = r.c]
          /\ tasks' = [tasks EXCEPT !.reader.pc = IF r.panic THEN "panicked" ELSE "run",
                                    !.reader.calls = @ + 1]
          /\ history' = [history EXCEPT
                            !.received = IF r.panic THEN @
                                         ELSE Append(@, Received("recv", 0, r.res,
                                                          r.res = OkBytes(<<>>)))]
    /\ UNCHANGED <<scheduler_vars, stores>>

\* rx.take(size) is called.
ReaderTake(size) ==
    /\ tasks.reader.pc \in {"new", "run"}
    /\ tasks.reader.calls < MaxRecvs
    /\ tasks' = [tasks EXCEPT !.reader.pc = "take",
                              !.reader.take = take_begin(size),
                              !.reader.calls = @ + 1]
    /\ UNCHANGED <<scheduler_vars, stores, channels, history>>

\* A recv().await of the take returns; the take goes on or returns.
ReaderTakeStep ==
    /\ tasks.reader.pc = "take"
    /\ recv_ready(channels.pipe)
    /\ \E r \in {take_step(channels.pipe, tasks.reader.take)} :
          /\ channels' = [channels EXCEPT !.pipe = r.c]
          /\ tasks' = [tasks EXCEPT
                          !.reader.pc = IF r.panic THEN "panicked"
                                        ELSE IF r.done THEN "run" ELSE "take",
                          !.reader.take = IF r.done THEN take_begin(0) ELSE r.t]
          /\ history' = [history EXCEPT
                            !.received =
                                IF r.done /\ ~r.panic
                                THEN Append(@, Received("take", tasks.reader.take.size, r.res,
                                                   recv(channels.pipe).res = OkBytes(<<>>)))
                                ELSE @]
    /\ UNCHANGED <<scheduler_vars, stores>>

\* The read half is dropped: by its owner, or with the future that holds it.
ReaderDrop ==
    /\ tasks.reader.pc \in {"new", "run", "take"}
    /\ channels' = [channels EXCEPT !.pipe = drop_read_half(@)]
    /\ tasks' = [tasks EXCEPT !.reader.pc = "dropped", !.reader.take = take_begin(0)]
    /\ UNCHANGED <<scheduler_vars, stores, history>>

NextChannel ==
    \/ \E len \in 1..MaxChunk : WriterSend(len)
    \/ WriterSendEof
    \/ WriterSendEofReturns
    \/ WriterDrop
    \/ DropTaskRun
    \/ \E size \in 1..MaxBytes : ReaderSetCloseAfterSize(size)
    \/ ReaderRecv
    \/ \E size \in 0..MaxBytes : ReaderTake(size)
    \/ ReaderTakeStep
    \/ ReaderDrop

SpecChannel == InitChannel /\ [][NextChannel]_vars

\* ------------------------------------------------ properties of the channel
\* The chunks returned by the first n calls of the reader.
ChunksOf(n) == [j \in 1..n |-> history.received[j].res.chunk]

\* The first n calls of the reader were calls of recv that returned a chunk.
ChunksOnly(n) ==
    \A j \in 1..n :
        /\ history.received[j].op = "recv"
        /\ history.received[j].res.ok
        /\ history.received[j].res.chunk # <<>>

IsPrefix(s, t) == Len(s) <= Len(t) /\ s = SubSeq(t, 1, Len(s))

RECURSIVE Concat(_)
Concat(seqs) == IF seqs = <<>> THEN <<>> ELSE Head(seqs) \o Concat(Tail(seqs))

\* C21: a reader that calls recv until the empty chunk has received, when the
\* empty chunk comes, exactly the chunks of the sends that returned Ok, in the
\* order of the sends; until then it has received the first of them, so no
\* byte is lost, repeated or out of place.
ReaderObservesSentChunks ==
    \A n \in 0..Len(history.received) :
        ChunksOnly(n) =>
            /\ IsPrefix(ChunksOf(n), history.sent)
            /\ (n < Len(history.received) /\ history.received[n + 1] = Received("recv", 0, OkBytes(<<>>), TRUE))
                  => /\ ChunksOf(n) = history.sent
                     /\ Len(Concat(ChunksOf(n))) = channels.pipe.bytes_written

\* Two chunks and then the empty chunk were received, and send_eof returned Ok.
StreamReceivedToEof ==
    /\ Len(history.received) = 3
    /\ ChunksOnly(2)
    /\ history.received[3] = Received("recv", 0, OkBytes(<<>>), TRUE)
    /\ history.send_eof = "Ok"
    /\ history.close_after_size = U64_MAX

\* C22: with no close_after_size set, send_eof has returned Ok only if a call
\* of the reader has returned with the end of the stream, after the reader
\* was given every byte of every chunk sent before.
SendEofOkAfterEofReceived ==
    (history.send_eof = "Ok" /\ history.close_after_size = U64_MAX) =>
        \E n \in 1..Len(history.received) :
            /\ history.received[n].eof
            /\ \A j \in 1..n : history.received[j].res.ok
            /\ Concat(ChunksOf(n)) = Concat(history.sent)

\* send_eof returned Ok after two sends to a reader that used take.
SendEofReturnedOk ==
    /\ history.send_eof = "Ok"
    /\ history.close_after_size = U64_MAX
    /\ tasks.writer.pc = "done"
    /\ Len(history.sent) = 2
    /\ \E n \in 1..Len(history.received) : history.received[n].op = "take"

\* The write half was dropped and send_eof had not been called.
WriterDroppedBeforeEof == tasks.writer.pc = "dropped" /\ ~tasks.writer.sent_eof

\* C23: when the write half was dropped without send_eof (and the reader set
\* no close_after_size), the chunks the reader has received are the first of
\* those sent, the first recv that returns no chunk returns an error and
\* comes after every chunk sent, and no call of the reader returns the empty
\* chunk of a clean end of the stream.
DroppedWriterNeverCleanEof ==
    (WriterDroppedBeforeEof /\ history.close_after_size = U64_MAX) =>
        \A n \in 1..Len(history.received) :
            /\ ~history.received[n].eof
            /\ (ChunksOnly(n - 1) /\ history.received[n].op = "recv") =>
                  /\ IsPrefix(ChunksOf(n - 1), history.sent)
                  /\ ~ChunksOnly(n) =>
                        /\ ~history.received[n].res.ok
                        /\ ChunksOf(n - 1) = history.sent

\* The read half was dropped and no call of the reader had met the end of the
\* stream; no close_after_size was set.
ReaderDroppedBeforeEof ==
    /\ tasks.reader.pc = "dropped"
    /\ history.close_after_size = U64_MAX
    /\ \A n \in 1..Len(history.received) : ~history.received[n].eof

\* C24: when the read half was dropped before the reader met the end of the
\* stream, a send_eof of the writer returns an error, however the drop falls
\* among the sends and the send_eof: it does not return Ok, it does not stay
\* at its await, and no assertion of it fails.
SendEofFailsAfterReaderDrop ==
    ReaderDroppedBeforeEof =>
        /\ history.send_eof # "Ok"
        /\ tasks.writer.pc = "send_eof" => close_rx_ready(channels.pipe)
        /\ tasks.writer.pc # "panicked"

\* The bytes the calls of the reader have returned.
BytesReceived ==
    Len(Concat([j \in 1..Len(history.received) |->
                    IF history.received[j].res.ok
                    THEN history.received[j].res.chunk ELSE <<>>]))

\* C25: after set_close_after_size(n), once the reader has been given n bytes
\* the stream is closed cleanly: Ok is what send_eof finds and returns, also
\* when the read half is dropped before any end of the stream was received.
CloseAfterSizeClosesCleanly ==
    (history.close_after_size # U64_MAX /\ BytesReceived = history.close_after_size) =>
        /\ channels.pipe.close_rx = "Ok"
        /\ history.send_eof # "Err"
        /\ tasks.writer.pc = "done" => history.send_eof = "Ok"

\* The reader set close_after_size, received that many bytes and was dropped
\* with no end of the stream received; send_eof returned Ok afterwards.
SendEofOkAfterSizedReaderDropped ==
    /\ history.close_after_size = 2
    /\ BytesReceived = 2
    /\ tasks.reader.pc = "dropped"
    /\ \A n \in 1..Len(history.received) : ~history.received[n].eof
    /\ history.send_eof = "Ok"

\* C26: with no close_after_size set and while no call has returned an error,
\* a take(n) returns n bytes, or fewer when it met the end of the stream; the
\* results of the takes and recvs, put together in the order of the calls,
\* are the first bytes of the stream that was sent, whatever its chunks, and
\* all of it once a call has met the end of the stream; no assertion fails.
TakeReturnsStreamBytes ==
    history.close_after_size = U64_MAX =>
        /\ tasks.reader.pc # "panicked"
        /\ \A n \in 1..Len(history.received) :
              (\A j \in 1..n : history.received[j].res.ok) =>
                  LET call == history.received[n] IN
                  /\ IsPrefix(Concat(ChunksOf(n)), Concat(history.sent))
                  /\ call.op = "take" =>
                        \/ Len(call.res.chunk) = call.size
                        \/ call.eof /\ Len(call.res.chunk) < call.size
                  /\ call.eof => Concat(ChunksOf(n)) = Concat(history.sent)

\* A take(1) cut a chunk of two bytes, a take(2) put the rest together with
\* the next chunk, and the end of the stream followed.
TakeAcrossChunks ==
    /\ history.close_after_size = U64_MAX
    /\ history.sent = <<Bytes(1, 2), Bytes(3, 1)>>
    /\ Len(history.received) = 3
    /\ history.received[1] = Received("take", 1, OkBytes(Bytes(1, 1)), FALSE)
    /\ history.received[2].op = "take"
    /\ history.received[2].res = OkBytes(Bytes(2, 2))
    /\ history.received[3].eof

\* C37: with set_close_after_size(n) in effect and a stream of at most n
\* bytes, no assertion of the read half fails, whatever the mix of take and
\* recv, and while no call has met the end of the stream the writer is told
\* of the clean close only once n bytes have been given to the caller.
CloseAfterSizeCountsOnce ==
    /\ history.close_after_size # U64_MAX
    /\ Len(Concat(history.sent)) <= history.close_after_size
    =>
    /\ tasks.reader.pc # "panicked"
    /\ /\ channels.pipe.close_rx = "Ok"
       /\ \A j \in 1..Len(history.received) : ~history.received[j].eof
       => BytesReceived >= history.close_after_size

\* ---------------------------------------------- the stores of fast_slow_store.rs
\* FastSlowStore is written against the byte channel of nativelink_util, whose
\* send_eof returns at once, and against the Store interface. Of the two only
\* the calls are in fast_slow_store.rs; what they do is taken from their
\* contracts: send fails once the read half is dropped, send_eof closes the
\* stream and fails once the read half is dropped, recv returns the next chunk,
\* the empty chunk at a clean end and an error when the write half was dropped
\* without send_eof.
\*   queue    the chunks sent and not yet received
\*   sent     the number of chunks sent so far
\*   eof      send_eof has closed the stream
\*   writer   the write half is neither closed nor dropped
\*   reader   the read half is not dropped
pipe_new == [queue |-> <<>>, sent |-> 0, eof |-> FALSE, writer |-> TRUE, reader |-> TRUE]

\* send returns.
pipe_send_ready(p) == ~p.reader \/ Len(p.queue) < CHANNEL_CAPACITY

pipe_send(p, buf) ==
    IF p.reader
    THEN [p |-> [p EXCEPT !.queue = Append(@, buf), !.sent = @ + 1], ok |-> TRUE]
    ELSE [p |-> p, ok |-> FALSE]

pipe_send_eof(p) ==
    IF p.reader
    THEN [p |-> [p EXCEPT !.eof = TRUE, !.writer = FALSE], ok |-> TRUE]
    ELSE [p |-> [p EXCEPT !.writer = FALSE], ok |-> FALSE]

pipe_drop_writer(p) == [p EXCEPT !.writer = FALSE]

pipe_drop_reader(p) == [p EXCEPT !.reader = FALSE, !.queue = <<>>]

\* recv returns.
pipe_recv_ready(p) == p.queue # <<>> \/ ~p.writer

pipe_recv(p) ==
    IF p.queue # <<>>
    THEN [p |-> [p EXCEPT !.queue = Tail(@)], res |-> OkBytes(Head(p.queue))]
    ELSE IF p.eof
         THEN [p |-> p, res |-> OkBytes(<<>>)]
         ELSE [p |-> p, res |-> ErrBytes(WriterDroppedError)]

\* A stream of the bytes first .. first + size - 1 cut into chunks in every way.
RECURSIVE Chunkings(_, _, _)
Chunkings(first, size, max_chunk) ==
    IF size = 0
    THEN {<<>>}
    ELSE UNION {{<<Bytes(first, len)>> \o rest :
                    rest \in Chunkings(first + len, size - len, max_chunk)} :
                len \in 1..(IF max_chunk < size THEN max_chunk ELSE size)}

\* A read half as a caller hands it over: the chunks are on their way and the
\* writer either has closed the stream or has been dropped.
pipe_of(chunks, eof) ==
    [queue |-> chunks, sent |-> Len(chunks), eof |-> eof, writer |-> FALSE, reader |-> TRUE]

\* Store::update as its contract has it: the update consumes the reader until
\* EOF and then succeeds, and fails when the reader returns an error; the
\* backend may fail at any point, also when the whole stream was read.
\*   pc        "run", "eof" (the end of the stream was read), "done"
\*   received  the bytes read so far
\*   res       "None" while the update runs, "Ok", "Err"
\*   failed_at the chunks and the EOF sent to the update when it failed
store_update_begin ==
    [pc |-> "run", received |-> <<>>, res |-> "None", failed_at |-> [sent |-> 0, eof |-> FALSE]]

store_update_fail(p, s) ==
    [p |-> pipe_drop_reader(p),
     s |-> [s EXCEPT !.pc = "done", !.res = "Err",
                     !.failed_at = [sent |-> p.sent, eof |-> p.eof]]]

store_update_recv(p, s) ==
    LET r == pipe_recv(p) IN
    IF ~r.res.ok
    THEN store_update_fail(r.p, s)
    ELSE IF r.res.chunk = <<>>
         THEN [p |-> r.p, s |-> [s EXCEPT !.pc = "eof"]]
         ELSE [p |-> r.p, s |-> [s EXCEPT !.received = @ \o r.res.chunk]]

store_update_finish(p, s, ok) ==
    IF ok
    THEN [p |-> pipe_drop_reader(p), s |-> [s EXCEPT !.pc = "done", !.res = "Ok"]]
    ELSE store_update_fail(p, s)

\* data_stream_fut of FastSlowStore::update.
\*   pc           "recv" (at reader.recv), "send" (in the join of the two
\*                sends), "done"
\*   buffer       the chunk being sent
\*   fast_result, slow_result   "Pending", "Ok", "Err": the two sends of the join
\*   res          "None" while the future runs, "Ok", "Err"
data_stream_begin ==
    [pc |-> "recv", buffer |-> <<>>, fast_result |-> "Pending",
     slow_result |-> "Pending", res |-> "None"]

\* The future returns: its reader and its two writers are dropped with it.
data_stream_return(ch, t, res) ==
    [ch |-> [ch EXCEPT !.input = pipe_drop_reader(@),
                       !.fast = pipe_drop_writer(@),
                       !.slow = pipe_drop_writer(@)],
     t |-> [t EXCEPT !.pc = "done", !.res = res]]

\* reader.recv() returns: an error ends the future, the empty chunk sends EOF
\* to the fast and then to the slow store, a chunk goes to the two sends.
data_stream_recv(ch, t) ==
    LET r == pipe_recv(ch.input)
        ch1 == [ch EXCEPT !.input = r.p]
        fast_eof == pipe_send_eof(ch1.fast)
        ch2 == [ch1 EXCEPT !.fast = fast_eof.p]
        slow_eof == pipe_send_eof(ch2.slow)
        ch3 == [ch2 EXCEPT !.slow = slow_eof.p]
    IN IF ~r.res.ok
       THEN data_stream_return(ch1, t, "Err")
       ELSE IF r.res.chunk = <<>>
            THEN IF ~fast_eof.ok
                 THEN data_stream_return(ch2, t, "Err")
                 ELSE IF ~slow_eof.ok
                      THEN data_stream_return(ch3, t, "Err")
                      ELSE data_stream_return(ch3, t, "Ok")
            ELSE [ch |-> ch1,
                  t |-> [t EXCEPT !.pc = "send", !.buffer = r.res.chunk,
                                  !.fast_result = "Pending", !.slow_result = "Pending"]]

\* A join that goes on after a send has failed.
data_stream_join_ignoring_error(ch, t) ==
    IF t.fast_result = "Pending" \/ t.slow_result = "Pending"
    THEN [ch |-> ch, t |-> t]
    ELSE [ch |-> ch, t |-> [t EXCEPT !.pc = "recv", !.buffer = <<>>]]

\* The join of the two sends is over: the merged error ends the future.
data_stream_join(ch, t) ==
    IF t.fast_result = "Pending" \/ t.slow_result = "Pending"
    THEN [ch |-> ch, t |-> t]
    ELSE IF t.fast_result = "Err" \/ t.slow_result = "Err"
         THEN data_stream_return(ch, t, "Err")
         ELSE [ch |-> ch, t |-> [t EXCEPT !.pc = "recv", !.buffer = <<>>]]

\* One of the two sends of the join returns.
data_stream_send(ch, t, side) ==
    LET r == pipe_send(ch[side], t.buffer)
        result == IF r.ok THEN "Ok" ELSE "Err"
        ch1 == [ch EXCEPT ![side] = r.p]
        t1 == IF side = "fast" THEN [t EXCEPT !.fast_result = result]
              ELSE [t EXCEPT !.slow_result = result]
    IN data_stream_join(ch1, t1)

\* data_stream_res.merge(fast_res).merge(slow_res)?; Ok(())
update_result(data_stream_res, fast_res, slow_res) ==
    IF data_stream_res = "Ok" /\ fast_res = "Ok" /\ slow_res = "Ok" THEN "Ok" ELSE "Err"

\* ------------------------------------- specification: FastSlowStore::update
\* An update of an object whose reader delivers the object in chunks and then
\* either EOF or the error of a dropped writer, into a fast and a slow store
\* neither of which is a noop store.
\*   history.object   the bytes of the object
\*   history.chunks   the chunks the reader delivers
\*   history.result   "None" until update returns, then "Ok" or "Err"
Sides == {"fast", "slow"}

Other(side) == IF side = "fast" THEN "slow" ELSE "fast"

InitFastSlowUpdate ==
    /\ SchedulerInit
    /\ \E size \in 0..MaxBytes :
       \E chunks \in Chunkings(1, size, MaxChunk) :
       \E eof \in BOOLEAN :
          /\ channels = [input |-> pipe_of(chunks, eof), fast |-> pipe_new, slow |-> pipe_new]
          /\ history = [object |-> Bytes(1, size), chunks |-> chunks,
                        eof |-> eof, result |-> "None"]
    /\ tasks = [data_stream |-> data_stream_begin,
                fast |-> store_update_begin,
                slow |-> store_update_begin]
    /\ stores = <<>>

\* reader.recv() of data_stream_fut returns.
DataStreamRecv ==
    /\ tasks.data_stream.pc = "recv"
    /\ pipe_recv_ready(channels.input)
    /\ \E r \in {data_stream_recv(channels, tasks.data_stream)} :
          /\ channels' = r.ch
          /\ tasks' = [tasks EXCEPT !.data_stream = r.t]
    /\ UNCHANGED <<scheduler_vars, stores, history>>

\* fast_tx.send or slow_tx.send of the join returns.
DataStreamSend(side) ==
    /\ tasks.data_stream.pc = "send"
    /\ (IF side = "fast" THEN tasks.data_stream.fast_result
                         ELSE tasks.data_stream.slow_result) = "Pending"
    /\ pipe_send_ready(channels[side])
    /\ \E r \in {data_stream_send(channels, tasks.data_stream, side)} :
          /\ channels' = r.ch
          /\ tasks' = [tasks EXCEPT !.data_stream = r.t]
    /\ UNCHANGED <<scheduler_vars, stores, history>>

\* The update of a store reads its reader.
StoreUpdateRecv(side) ==
    /\ tasks[side].pc = "run"
    /\ pipe_recv_ready(channels[side])
    /\ \E r \in {store_update_recv(channels[side], tasks[side])} :
          /\ channels' = [channels EXCEPT ![side] = r.p]
          /\ tasks' = [tasks EXCEPT ![side] = r.s]
    /\ UNCHANGED <<scheduler_vars, stores, history>>

\* The update of a store fails before the end of its stream.
StoreUpdateFail(side) ==
    /\ tasks[side].pc = "run"
    /\ \E r \in {store_update_fail(channels[side], tasks[side])} :
          /\ channels' = [channels EXCEPT ![side] = r.p]
          /\ tasks' = [tasks EXCEPT ![side] = r.s]
    /\ UNCHANGED <<scheduler_vars, stores, history>>

\* The update of a store that has read the whole stream returns.
StoreUpdateFinish(side, ok) ==
    /\ tasks[side].pc = "eof"
    /\ \E r \in {store_update_finish(channels[side], tasks[side], ok)} :
          /\ channels' = [channels EXCEPT ![side] = r.p]
          /\ tasks' = [tasks EXCEPT ![side] = r.s]
    /\ UNCHANGED <<scheduler_vars, stores, history>>

\* The join of the three futures is over and update returns.
UpdateReturns ==
    /\ history.result = "None"
    /\ tasks.data_stream.pc = "done"
    /\ tasks.fast.pc = "done"
    /\ tasks.slow.pc = "done"
    /\ history' = [history EXCEPT
                      !.result = update_result(tasks.data_stream.res,
                                               tasks.fast.res, tasks.slow.res)]
    /\ UNCHANGED <<scheduler_vars, stores, channels, tasks>>

NextFastSlowUpdate ==
    \/ DataStreamRecv
    \/ \E side \in Sides : DataStreamSend(side)
    \/ \E side \in Sides : StoreUpdateRecv(side)
    \/ \E side \in Sides : StoreUpdateFail(side)
    \/ \E side \in Sides, ok \in BOOLEAN : StoreUpdateFinish(side, ok)
    \/ UpdateReturns

\* The futures of the join are polled while one of them can go on.
SpecFastSlowUpdate ==
    InitFastSlowUpdate /\ [][NextFastSlowUpdate]_vars /\ WF_vars(NextFastSlowUpdate)

\* ------------------------------------ properties of FastSlowStore::update
\* The update of a side has read the whole object and the end of its stream,
\* and has succeeded.
StoredWhole(side) ==
    /\ tasks[side].res = "Ok"
    /\ tasks[side].received = history.object
    /\ channels[side].eof

\* The writer of a side was dropped without EOF and its update has failed.
Aborted(side) == ~channels[side].eof /\ tasks[side].res = "Err"

\* update has returned Ok only with the whole object and EOF in both stores,
\* and an error whenever the update of a side has failed.
UpdateOkOnlyIfBothStored ==
    /\ history.result = "Ok" => \A side \in Sides : StoredWhole(side)
    /\ (\E side \in Sides : tasks[side].res = "Err") => history.result = "Err"

\* C27 as it stands: update returns Ok only if both stores have read the whole
\* stream and its EOF and have succeeded; when the update of a side has
\* failed, the writer of the other side was dropped without EOF, the update of
\* the other side has failed too, and update has returned an error.
FailureAbortsBoth ==
    history.result # "None" =>
        /\ UpdateOkOnlyIfBothStored
        /\ \A side \in Sides : tasks[side].res = "Err" => Aborted(Other(side))

\* The update of a side failed where data_stream_fut finds it out in time:
\* the fast one before its EOF was sent, the slow one before the last chunk
\* of the input was sent to it.
FailedInTime(side) ==
    /\ tasks[side].res = "Err"
    /\ IF side = "fast"
       THEN ~tasks[side].failed_at.eof
       ELSE tasks[side].failed_at.sent < Len(history.chunks)

FailureInTimeAbortsBoth ==
    history.result # "None" =>
        /\ UpdateOkOnlyIfBothStored
        /\ \A side \in Sides : FailedInTime(side) => Aborted(Other(side))

\* C27, amended: update returns Ok only if both stores have read the whole
\* stream and its EOF and have succeeded; when the update of the fast store
\* fails before its EOF was sent, or that of the slow store before the last
\* chunk was sent to it, the writer of the other side is dropped without EOF
\* and the update of the other side fails too; whenever the update of a side
\* fails, update returns an error; and update always returns.
UpdateAbortsOrReturnsError ==
    /\ []FailureInTimeAbortsBoth
    /\ <>(history.result # "None")

\* The fast store failed after the first of two chunks, the slow store read
\* that chunk and then the error of its dropped writer, and update returned
\* the error.
FastFailedSlowAborted ==
    /\ history.result = "Err"
    /\ Len(history.chunks) = 2
    /\ history.eof
    /\ tasks.fast.failed_at = [sent |-> 1, eof |-> FALSE]
    /\ tasks.fast.received = <<>>
    /\ tasks.slow.received = history.chunks[1]
    /\ Aborted("slow")

\* -------------------------------------- specification: FastSlowStore::get_part
USIZE_MAX == 1000000

\* Range<usize>
Range(start, end) == [start |-> start, end |-> end]

\* Range::contains
contains(range, item) == range.start <= item /\ item < range.end

max(a, b) == IF a >= b THEN a ELSE b

min(a, b) == IF a <= b THEN a ELSE b

\* FastSlowStore::calculate_range. end - 1 overflows when end is 0: a build
\* with overflow checks panics there, a build without them wraps around.
calculate_range(received_range, send_range, overflow_checks) ==
    LET start == max(received_range.start, send_range.start)
        end == min(received_range.end, send_range.end)
        end_less_one == IF end = 0 THEN USIZE_MAX ELSE end - 1
    IN IF received_range.start >= received_range.end
       THEN [some |-> FALSE, range |-> Range(0, 0), panic |-> FALSE]
       ELSE IF end = 0 /\ overflow_checks
            THEN [some |-> FALSE, range |-> Range(0, 0), panic |-> TRUE]
            ELSE IF contains(received_range, start) /\ contains(received_range, end_less_one)
                 THEN [some |-> TRUE,
                       range |-> Range(start - received_range.start,
                                       end - received_range.start),
                       panic |-> FALSE]
                 ELSE [some |-> FALSE, range |-> Range(0, 0), panic |-> FALSE]

\* offset..length.map_or(usize::MAX, |length| length + offset); a length of
\* None is written USIZE_MAX.
send_range_of(offset, length) ==
    Range(offset, IF length = USIZE_MAX THEN USIZE_MAX ELSE length + offset)

\* data_stream_fut of FastSlowStore::get_part.
\*   pc              "recv" (at slow_rx.recv), "send" (in the join of the two
\*                   sends), "done", "panicked"
\*   bytes_received  the bytes of the slow store's stream read so far
\*   output_buf      the chunk on its way to the fast store
\*   writer_buf      the part of it on its way to the writer
\*   fast_tx_res, writer_res   "Pending", "Ok", "Err": the two parts of the join
\*   fast_eof_res    the result of fast_tx.send_eof()
\*   res             "None" while the future runs, "Ok", "Err"
get_part_begin ==
    [pc |-> "recv", bytes_received |-> 0, output_buf |-> <<>>, writer_buf |-> <<>>,
     fast_tx_res |-> "Pending", writer_res |-> "Pending",
     fast_eof_res |-> "None", res |-> "None"]

\* The future returns: slow_rx and fast_tx are dropped with it, the writer is
\* borrowed and stays.
get_part_return(ch, t, res) ==
    [ch |-> [ch EXCEPT !.slow = pipe_drop_reader(@), !.fast = pipe_drop_writer(@)],
     t |-> [t EXCEPT !.pc = "done", !.res = res]]

\* slow_rx.recv() returns: an error ends the future, the empty chunk sends EOF
\* to the fast store, a chunk goes to the fast store and its part in
\* send_range to the writer.
get_part_recv(ch, t, send_range, overflow_checks) ==
    LET r == pipe_recv(ch.slow)
        ch1 == [ch EXCEPT !.slow = r.p]
        output_buf == r.res.chunk
        fast_eof == pipe_send_eof(ch1.fast)
        range == calculate_range(
                     Range(t.bytes_received, t.bytes_received + Len(output_buf)),
                     send_range, overflow_checks)
    IN IF ~r.res.ok
       THEN get_part_return(ch1, t, "Err")
       ELSE IF output_buf = <<>>
            THEN get_part_return(
                     [ch1 EXCEPT !.fast = fast_eof.p],
                     [t EXCEPT !.fast_eof_res = IF fast_eof.ok THEN "Ok" ELSE "Err"],
                     "Ok")
            ELSE IF range.panic
                 THEN [ch |-> ch1, t |-> [t EXCEPT !.pc = "panicked"]]
                 ELSE [ch |-> ch1,
                       t |-> [t EXCEPT
                                 !.pc = "send",
                                 !.output_buf = output_buf,
                                 !.writer_buf = IF range.some
                                                THEN slice(output_buf, range.range.start,
                                                           range.range.end)
                                                ELSE <<>>,
                                 !.fast_tx_res = "Pending",
                                 !.writer_res = IF range.some THEN "Pending" ELSE "Ok",
                                 !.bytes_received = @ + Len(output_buf)]]

\* The join of the two sends is over: the first error ends the future.
get_part_join(ch, t) ==
    IF t.fast_tx_res = "Pending" \/ t.writer_res = "Pending"
    THEN [ch |-> ch, t |-> t]
    ELSE IF t.fast_tx_res = "Err" \/ t.writer_res = "Err"
         THEN get_part_return(ch, t, "Err")
         ELSE [ch |-> ch, t |-> [t EXCEPT !.pc = "recv", !.output_buf = <<>>,
                                          !.writer_buf = <<>>]]

\* fast_tx.send(output_buf) returns.
get_part_send_fast(ch, t) ==
    LET r == pipe_send(ch.fast, t.output_buf) IN
    get_part_join([ch EXCEPT !.fast = r.p],
                  [t EXCEPT !.fast_tx_res = IF r.ok THEN "Ok" ELSE "Err"])

\* writer_pin.send(output_buf.slice(range)) returns.
get_part_send_writer(ch, t) ==
    LET r == pipe_send(ch.writer, t.writer_buf) IN
    get_part_join([ch EXCEPT !.writer = r.p],
                  [t EXCEPT !.writer_res = IF r.ok THEN "Ok" ELSE "Err"])

\* The match on data_stream_res: the writer is sent EOF when the future
\* returned Ok, whatever the other results are.
get_part_result(ch, t, fast_res, slow_res) ==
    LET writer_eof == pipe_send_eof(ch.writer) IN
    IF t.res = "Ok"
    THEN [ch |-> [ch EXCEPT !.writer = writer_eof.p],
          res |-> IF t.fast_eof_res = "Ok" /\ fast_res = "Ok" /\ slow_res = "Ok"
                     /\ writer_eof.ok
                  THEN "Ok" ELSE "Err"]
    ELSE [ch |-> ch, res |-> "Err"]

\* The slow store's get as its contract has it: it sends the object in chunks
\* and then EOF; it may fail before, and its writer is then dropped without
\* EOF.
\*   pc    "run", "done";  next: the chunk to send;  res: "None", "Ok", "Err"
store_get_begin == [pc |-> "run", next |-> 1, res |-> "None"]

store_get_send(p, s, chunks) ==
    LET r == IF s.next <= Len(chunks) THEN pipe_send(p, chunks[s.next]) ELSE pipe_send_eof(p)
    IN IF ~r.ok
       THEN [p |-> pipe_drop_writer(r.p), s |-> [s EXCEPT !.pc = "done", !.res = "Err"]]
       ELSE IF s.next <= Len(chunks)
            THEN [p |-> r.p, s |-> [s EXCEPT !.next = @ + 1]]
            ELSE [p |-> r.p, s |-> [s EXCEPT !.pc = "done", !.res = "Ok"]]

store_get_fail(p, s) ==
    [p |-> pipe_drop_writer(p), s |-> [s EXCEPT !.pc = "done", !.res = "Err"]]

\* The holder of the writer's read half reads it to the first empty chunk.
\*   received  the bytes read;  eof: the empty chunk was read
client_begin == [received |-> <<>>, eof |-> FALSE, failed |-> FALSE]

client_recv(p, s) ==
    LET r == pipe_recv(p) IN
    IF ~r.res.ok
    THEN [p |-> r.p, s |-> [s EXCEPT !.failed = TRUE]]
    ELSE IF r.res.chunk = <<>>
         THEN [p |-> r.p, s |-> [s EXCEPT !.eof = TRUE]]
         ELSE [p |-> r.p, s |-> [s EXCEPT !.received = @ \o r.res.chunk]]

\* The largest offset and length asked for.
MaxOffset == 3

\* A get_part of an object that the fast store does not have and the slow
\* store has, of every offset and length, with the slow store's stream cut
\* into chunks in every way.
\*   history.object           the bytes of the object
\*   history.chunks           the chunks the slow store sends
\*   history.offset, length   the window asked for; a length of None is USIZE_MAX
\*   history.overflow_checks  the build panics on integer overflow
\*   history.result           "None" until get_part returns, then "Ok" or "Err"
InitFastSlowGetPart ==
    /\ SchedulerInit
    /\ \E size \in 1..MaxBytes :
       \E chunks \in Chunkings(1, size, MaxChunk) :
       \E offset \in 0..MaxOffset :
       \E length \in (0..MaxOffset) \cup {USIZE_MAX} :
       \E overflow_checks \in BOOLEAN :
          history = [object |-> Bytes(1, size), chunks |-> chunks,
                     offset |-> offset, length |-> length,
                     overflow_checks |-> overflow_checks, result |-> "None"]
    /\ channels = [slow |-> pipe_new, fast |-> pipe_new, writer |-> pipe_new]
    /\ tasks = [data_stream |-> get_part_begin,
                slow |-> store_get_begin,
                fast |-> store_update_begin,
                client |-> client_begin]
    /\ stores = <<>>

\* slow_rx.recv() of data_stream_fut returns.
GetPartRecv ==
    /\ tasks.data_stream.pc = "recv"
    /\ pipe_recv_ready(channels.slow)
    /\ \E r \in {get_part_recv(channels, tasks.data_stream,
                               send_range_of(history.offset, history.length),
                               history.overflow_checks)} :
          /\ channels' = r.ch
          /\ tasks' = [tasks EXCEPT !.data_stream = r.t]
    /\ UNCHANGED <<scheduler_vars, stores, history>>

\* fast_tx.send of the join returns.
GetPartSendFast ==
    /\ tasks.data_stream.pc = "send"
    /\ tasks.data_stream.fast_tx_res = "Pending"
    /\ pipe_send_ready(channels.fast)
    /\ \E r \in {get_part_send_fast(channels, tasks.data_stream)} :
          /\ channels' = r.ch
          /\ tasks' = [tasks EXCEPT !.data_stream = r.t]
    /\ UNCHANGED <<scheduler_vars, stores, history>>

\* writer_pin.send of the join returns.
GetPartSendWriter ==
    /\ tasks.data_stream.pc = "send"
    /\ tasks.data_stream.writer_res = "Pending"
    /\ pipe_send_ready(channels.writer)
    /\ \E r \in {get_part_send_writer(channels, tasks.data_stream)} :
          /\ channels' = r.ch
          /\ tasks' = [tasks EXCEPT !.data_stream = r.t]
    /\ UNCHANGED <<scheduler_vars, stores, history>>

\* The slow store's get sends its next chunk, or EOF after the last.
SlowGetSend ==
    /\ tasks.slow.pc = "run"
    /\ pipe_send_ready(channels.slow)
    /\ \E r \in {store_get_send(channels.slow, tasks.slow, history.chunks)} :
          /\ channels' = [channels EXCEPT !.slow = r.p]
          /\ tasks' = [tasks EXCEPT !.slow = r.s]
    /\ UNCHANGED <<scheduler_vars, stores, history>>

\* The slow store's get fails.
SlowGetFail ==
    /\ tasks.slow.pc = "run"
    /\ \E r \in {store_get_fail(channels.slow, tasks.slow)} :
          /\ channels' = [channels EXCEPT !.slow = r.p]
          /\ tasks' = [tasks EXCEPT !.slow = r.s]
    /\ UNCHANGED <<scheduler_vars, stores, history>>

\* The holder of the writer's read half reads it.
ClientRecv ==
    /\ ~tasks.client.eof
    /\ ~tasks.client.failed
    /\ pipe_recv_ready(channels.writer)
    /\ \E r \in {client_recv(channels.writer, tasks.client)} :
          /\ channels' = [channels EXCEPT !.writer = r.p]
          /\ tasks' = [tasks EXCEPT !.client = r.s]
    /\ UNCHANGED <<scheduler_vars, stores, history>>

\* The join of the three futures is over and get_part returns.
GetPartReturns ==
    /\ history.result = "None"
    /\ tasks.data_stream.pc = "done"
    /\ tasks.slow.pc = "done"
    /\ tasks.fast.pc = "done"
    /\ \E r \in {get_part_result(channels, tasks.data_stream,
                                 tasks.fast.res, tasks.slow.res)} :
          /\ channels' = r.ch
          /\ history' = [history EXCEPT !.result = r.res]
    /\ UNCHANGED <<scheduler_vars, stores, tasks>>

NextFastSlowGetPart ==
    \/ GetPartRecv
    \/ GetPartSendFast
    \/ GetPartSendWriter
    \/ SlowGetSend
    \/ SlowGetFail
    \/ StoreUpdateRecv("fast")
    \/ StoreUpdateFail("fast")
    \/ \E ok \in BOOLEAN : StoreUpdateFinish("fast", ok)
    \/ ClientRecv
    \/ GetPartReturns

SpecFastSlowGetPart == InitFastSlowGetPart /\ [][NextFastSlowGetPart]_vars

\* ---------------------------------- properties of FastSlowStore::get_part
\* The bytes [offset, offset + length) of the object, clamped to its size.
Window ==
    LET size == Len(history.object)
        start == min(history.offset, size)
        end == IF history.length = USIZE_MAX THEN size
               ELSE min(history.offset + history.length, size)
    IN slice(history.object, start, end)

\* The bytes given to the writer so far: those read from it and those in it.
Delivered == tasks.client.received \o Concat(channels.writer.queue)

\* C28: get_part does not panic; what the writer is given is at any time the
\* first part of the window; when get_part returns Ok the writer has been
\* given the whole window and then EOF, and the fast store has read the
\* whole object and its EOF and has succeeded.
GetPartDeliversWindow ==
    /\ tasks.data_stream.pc # "panicked"
    /\ IsPrefix(Delivered, Window)
    /\ history.result = "Ok" =>
          /\ Delivered = Window
          /\ channels.writer.eof
          /\ StoredWhole("fast")

\* ----------------------------------------- specification: VerifyStore::update
\* VerifyStore and the store behind it are known here by their tests: what
\* they do is taken from their description, and the channel between them is
\* that of buf_channel.rs.
\* The largest value of a byte.
MaxByte == 2

\* The contents of an object: the sequences of at most n bytes.
Contents(n) == UNION {[1..len -> 1..MaxByte] : len \in 0..n}

\* SHA-256 fed chunk by chunk: a value that differs for different contents.
RECURSIVE sha256_update(_, _)
sha256_update(hasher, chunk) ==
    IF chunk = <<>> THEN hasher
    ELSE sha256_update(hasher * (MaxByte + 1) + Head(chunk), Tail(chunk))

sha256(content) == sha256_update(0, content)

\* DigestInfo
DigestInfo(hash, size_bytes) == [hash |-> hash, size_bytes |-> size_bytes]

\* The read half update is given: the chunks are sent and send_eof is waiting.
read_half_of(chunks) ==
    [make_buf_channel_pair EXCEPT !.queue = [i \in 1..Len(chunks) |-> OkBytes(chunks[i])],
                                  !.tx = FALSE]

\* The check of VerifyStore::update, which forwards the stream to the backend.
\*   pc        "recv" (at the recv of its reader), "send" (at tx.send),
\*             "send_eof" (at the await of tx.send_eof), "done", "panicked"
\*   sum_size  the bytes forwarded;  hasher: the SHA-256 of them
\*   chunk     the chunk being forwarded
\*   res       "None" while the check runs, "Ok", "Err"
check_update_begin ==
    [pc |-> "recv", sum_size |-> 0, hasher |-> 0, chunk |-> <<>>, res |-> "None"]

\* The check returns: its reader and its writer are dropped with it.
check_update_return(ch, t, res) ==
    [ch |-> [ch EXCEPT !.input = drop_read_half(@), !.backend = drop_write_half(@)],
     t |-> [t EXCEPT !.pc = "done", !.res = res]]

\* The recv of the check returns: a chunk is counted, hashed and forwarded;
\* at the end the size and the hash are compared with the digest, and only
\* when they agree is the backend sent EOF.
check_update_recv(ch, t, digest, verify_size, verify_hash) ==
    LET r == recv(ch.input)
        ch1 == [ch EXCEPT !.input = r.c]
        eof == send_eof_begin(ch1.backend)
    IN IF r.panic
       THEN [ch |-> ch1, t |-> [t EXCEPT !.pc = "panicked"]]
       ELSE IF ~r.res.ok
       THEN check_update_return(ch1, t, "Err")
       ELSE IF r.res.chunk # <<>>
       THEN [ch |-> ch1,
             t |-> [t EXCEPT !.pc = "send", !.chunk = r.res.chunk,
                             !.sum_size = @ + Len(r.res.chunk),
                             !.hasher = sha256_update(@, r.res.chunk)]]
       ELSE IF verify_size /\ t.sum_size # digest.size_bytes
       THEN \* Expected size {} but got size {} on insert
            check_update_return(ch1, t, "Err")
       ELSE IF verify_hash /\ t.hasher # digest.hash
       THEN \* Hashes do not match
            check_update_return(ch1, t, "Err")
       ELSE IF eof.panic
       THEN [ch |-> ch1, t |-> [t EXCEPT !.pc = "panicked"]]
       ELSE [ch |-> [ch1 EXCEPT !.backend = eof.c], t |-> [t EXCEPT !.pc = "send_eof"]]

\* tx.send(chunk) of the check returns.
check_update_send(ch, t) ==
    LET r == send(ch.backend, t.chunk)
        ch1 == [ch EXCEPT !.backend = r.c]
    IN IF r.panic
       THEN [ch |-> ch1, t |-> [t EXCEPT !.pc = "panicked"]]
       ELSE IF ~r.ok
       THEN check_update_return(ch1, t, "Err")
       ELSE [ch |-> ch1, t |-> [t EXCEPT !.pc = "recv", !.chunk = <<>>]]

\* tx.send_eof() of the check returns.
check_update_send_eof(ch, t) ==
    check_update_return(ch, t, IF send_eof_result(ch.backend) THEN "Ok" ELSE "Err")

\* The update of the store behind: it collects its reader to the end and
\* inserts what it has read under the digest; an error of the reader ends it
\* with nothing inserted.
\*   pc   "collect", "done", "panicked";  buf: the bytes collected
\*   res  "None" while the update runs, "Ok", "Err"
backend_update_begin == [pc |-> "collect", buf |-> <<>>, res |-> "None"]

\* One recv of collect_all_with_size_hint, and the insert after the last.
backend_update_recv(c, s, map, digest) ==
    LET r == recv(c) IN
    IF r.panic
    THEN [c |-> r.c, s |-> [s EXCEPT !.pc = "panicked"], map |-> map]
    ELSE IF ~r.res.ok
    THEN [c |-> drop_read_half(r.c), s |-> [s EXCEPT !.pc = "done", !.res = "Err"],
          map |-> map]
    ELSE IF r.res.chunk # <<>>
    THEN [c |-> r.c, s |-> [s EXCEPT !.buf = @ \o r.res.chunk], map |-> map]
    ELSE [c |-> drop_read_half(r.c), s |-> [s EXCEPT !.pc = "done", !.res = "Ok"],
          map |-> {e \in map : e.digest # digest} \cup {[digest |-> digest, data |-> s.buf]}]

\* has(digest) of the store behind
has(map, digest) == \E e \in map : e.digest = digest

\* An update through a VerifyStore of every content in every chunking, under
\* a digest that may or may not be that of the content.
\*   history.content          the bytes sent
\*   history.digest           the digest update is given
\*   history.verify_size, verify_hash   the configuration
\*   history.result           "None" until update returns, then "Ok" or "Err"
\*   stores.backend           the entries of the store behind
InitVerify ==
    /\ SchedulerInit
    /\ \E content \in Contents(MaxBytes) :
       \E positions \in Chunkings(1, Len(content), MaxChunk) :
       \E claimed \in {content} \cup Contents(1) :
       \E size_bytes \in 0..MaxBytes :
       \E verify_size \in BOOLEAN, verify_hash \in BOOLEAN :
          LET chunks == [i \in 1..Len(positions) |->
                            [j \in 1..Len(positions[i]) |-> content[positions[i][j]]]]
          IN /\ history = [content |-> content,
                           digest |-> DigestInfo(sha256(claimed), size_bytes),
                           verify_size |-> verify_size, verify_hash |-> verify_hash,
                           result |-> "None"]
             /\ channels = [input |-> read_half_of(chunks), backend |-> make_buf_channel_pair]
    /\ tasks = [check |-> check_update_begin, backend |-> backend_update_begin]
    /\ stores = [backend |-> {}]

\* The recv of the check returns.
CheckRecv ==
    /\ tasks.check.pc = "recv"
    /\ recv_ready(channels.input)
    /\ \E r \in {check_update_recv(channels, tasks.check, history.digest,
                                   history.verify_size, history.verify_hash)} :
          /\ channels' = r.ch
          /\ tasks' = [tasks EXCEPT !.check = r.t]
    /\ UNCHANGED <<scheduler_vars, stores, history>>

\* tx.send(chunk) of the check returns.
CheckSend ==
    /\ tasks.check.pc = "send"
    /\ send_ready(channels.backend, tasks.check.chunk)
    /\ \E r \in {check_update_send(channels, tasks.check)} :
          /\ channels' = r.ch
          /\ tasks' = [tasks EXCEPT !.check = r.t]
    /\ UNCHANGED <<scheduler_vars, stores, history>>

\* tx.send_eof() of the check returns.
CheckSendEofReturns ==
    /\ tasks.check.pc = "send_eof"
    /\ close_rx_ready(channels.backend)
    /\ \E r \in {check_update_send_eof(channels, tasks.check)} :
          /\ channels' = r.ch
          /\ tasks' = [tasks EXCEPT !.check = r.t]
    /\ UNCHANGED <<scheduler_vars, stores, history>>

\* The task spawned by the drop of the check's writer runs.
CheckDropTaskRun ==
    /\ channels.backend.drop_task
    /\ mpsc_send_ready(channels.backend)
    /\ channels' = [channels EXCEPT !.backend = drop_task_run(@)]
    /\ UNCHANGED <<scheduler_vars, stores, tasks, history>>

\* The store behind reads its reader.
BackendRecv ==
    /\ tasks.backend.pc = "collect"
    /\ recv_ready(channels.backend)
    /\ \E r \in {backend_update_recv(channels.backend, tasks.backend,
                                     stores.backend, history.digest)} :
          /\ channels' = [channels EXCEPT !.backend = r.c]
          /\ tasks' = [tasks EXCEPT !.backend = r.s]
          /\ stores' = [stores EXCEPT !.backend = r.map]
    /\ UNCHANGED <<scheduler_vars, history>>

\* The check and the update behind are over and update returns.
VerifyUpdateReturns ==
    /\ history.result = "None"
    /\ tasks.check.pc = "done"
    /\ tasks.backend.pc = "done"
    /\ history' = [history EXCEPT
                      !.result = IF tasks.check.res = "Ok" /\ tasks.backend.res = "Ok"
                                 THEN "Ok" ELSE "Err"]
    /\ UNCHANGED <<scheduler_vars, stores, channels, tasks>>

NextVerify ==
    \/ CheckRecv
    \/ CheckSend
    \/ CheckSendEofReturns
    \/ CheckDropTaskRun
    \/ BackendRecv
    \/ VerifyUpdateReturns

\* The two futures are polled while one of them can go on.
SpecVerify == InitVerify /\ [][NextVerify]_vars /\ WF_vars(NextVerify)

\* ------------------------------------- properties of VerifyStore::update
\* The stream differs from the digest in what the configuration verifies.
VerifyMismatch ==
    \/ history.verify_size /\ Len(history.content) # history.digest.size_bytes
    \/ history.verify_hash /\ sha256(history.content) # history.digest.hash

\* The store behind has no entry for the digest; its update, once over, has
\* failed on a stream that ended without EOF; update, once it has returned,
\* has returned an error.
VerifyRejected ==
    /\ ~has(stores.backend, history.digest)
    /\ tasks.backend.pc = "done" =>
          /\ tasks.backend.res = "Err"
          /\ channels.backend.close_rx # "Ok"
    /\ history.result # "Ok"

\* C29: with verify_size (verify_hash) set, an update whose stream differs
\* from the digest in length (in SHA-256) returns, and returns an error; the
\* store behind never has an entry for the digest, its update having read a
\* stream that ended without EOF.
VerifyMismatchRejected ==
    /\ [](VerifyMismatch => VerifyRejected)
    /\ VerifyMismatch => <>(history.result = "Err")

\* Three bytes in two chunks were forwarded under a digest of their length
\* and of another hash; update returned the error and the store behind,
\* which had collected the three bytes, has no entry.
HashMismatchRejected ==
    /\ history.verify_hash
    /\ Len(history.content) = 3
    /\ history.digest.size_bytes = 3
    /\ sha256(history.content) # history.digest.hash
    /\ tasks.backend.buf = history.content
    /\ history.result = "Err"
    /\ stores.backend = {}

\* ---------------------------------------------- specification: S3Store::update
MIN_MULTIPART_SIZE == 5242880

\* The parts an upload has at most.
MaxParts == 3

\* An S3 request as the service has seen it.
S3Request(op, part_number, ok) == [op |-> op, part_number |-> part_number, ok |-> ok]

\* cmp::max(MIN_MULTIPART_SIZE, max_size / (MIN_MULTIPART_SIZE - 1))
bytes_per_upload_part(max_size) ==
    max(MIN_MULTIPART_SIZE, max_size \div (MIN_MULTIPART_SIZE - 1))

\* S3Store::update
\*   pc           "start", "read" (in the loop, at read_to_end), "join" (at
\*                try_join_all), "complete" (at complete_multipart_upload),
\*                "done"
\*   remaining    the bytes the reader still holds
\*   part_number  the number of the next part
\*   parts        the spawned uploads: "Pending", "Ok", "Err", and "Aborted"
\*                for one whose JoinHandleDropGuard was dropped
\*   created      create_multipart_upload has given an upload id
\*   failed       a read, an upload of a part or the completion has failed
\*   res          "None" until update returns, then "Ok" or "Err"
s3_update_begin(size) ==
    [pc |-> "start", remaining |-> size, part_number |-> 1, parts |-> <<>>,
     created |-> FALSE, failed |-> FALSE, res |-> "None"]

\* update returns: the uploads still running are aborted by their guards.
s3_update_return(s, res) ==
    [s EXCEPT !.pc = "done", !.res = res,
              !.parts = [i \in 1..Len(@) |-> IF @[i] = "Pending" THEN "Aborted" ELSE @[i]]]

\* The upload of less than MIN_MULTIPART_SIZE: the reader is read (at once
\* for MaxSize, as the body of the request for ExactSize) and put_object is
\* called.
s3_put_object(s, log, read_ok, put_ok) ==
    IF ~read_ok
    THEN [s |-> s3_update_return(s, "Err"), log |-> log]
    ELSE [s |-> s3_update_return([s EXCEPT !.remaining = 0],
                                 IF put_ok THEN "Ok" ELSE "Err"),
          log |-> Append(log, S3Request("PutObject", 0, put_ok))]

\* create_multipart_upload and the upload id of its response
s3_create_multipart_upload(s, log, ok) ==
    IF ok
    THEN [s |-> [s EXCEPT !.pc = "read", !.created = TRUE],
          log |-> Append(log, S3Request("CreateMultipartUpload", 0, TRUE))]
    ELSE [s |-> s3_update_return(s, "Err"),
          log |-> Append(log, S3Request("CreateMultipartUpload", 0, FALSE))]

\* One turn of the loop: a part is read and its upload is spawned; the empty
\* read ends the loop; the ? on a failed read returns from update, the block
\* of complete_result being no function of its own.
s3_read_part(s, max_size, read_ok) ==
    LET len == min(bytes_per_upload_part(max_size), s.remaining) IN
    IF ~read_ok
    THEN s3_update_return([s EXCEPT !.failed = TRUE], "Err")
    ELSE IF len = 0
    THEN [s EXCEPT !.pc = "join"]
    ELSE [s EXCEPT !.remaining = @ - len, !.part_number = @ + 1,
                   !.parts = Append(@, "Pending")]

\* A spawned upload_part
s3_upload_part(s, log, i, ok) ==
    [s |-> [s EXCEPT !.parts[i] = IF ok THEN "Ok" ELSE "Err"],
     log |-> Append(log, S3Request("UploadPart", i, ok))]

\* try_join_all(..).await returns: at the first error, or with every part.
try_join_all_ready(s) ==
    \/ \E i \in 1..Len(s.parts) : s.parts[i] = "Err"
    \/ \A i \in 1..Len(s.parts) : s.parts[i] = "Ok"

\* try_join_all(completed_part_futs).await?: the ? returns from update.
s3_try_join_all(s) ==
    IF \E i \in 1..Len(s.parts) : s.parts[i] = "Err"
    THEN s3_update_return([s EXCEPT !.failed = TRUE], "Err")
    ELSE [s EXCEPT !.pc = "complete"]

\* What follows the block of complete_result: the abort when it is an error,
\* whose own failure is logged only, and the return of complete_result.
s3_update_finish(s, log, complete_result, abort_ok) ==
    IF complete_result = "Err"
    THEN [s |-> s3_update_return(s, "Err"),
          log |-> Append(log, S3Request("AbortMultipartUpload", 0, abort_ok))]
    ELSE [s |-> s3_update_return(s, "Ok"), log |-> log]

\* complete_multipart_upload(..).await ... ?; Ok(()): the ? returns from
\* update, so the block of complete_result has the value Ok(()) whenever it
\* has one.
s3_complete_multipart_upload(s, log, ok, abort_ok) ==
    LET log1 == Append(log, S3Request("CompleteMultipartUpload", 0, ok)) IN
    IF ~ok
    THEN [s |-> s3_update_return([s EXCEPT !.failed = TRUE], "Err"), log |-> log1]
    ELSE s3_update_finish(s, log1, "Ok", abort_ok)

\* The sizes of the objects uploaded: around the multipart threshold and
\* around the size of a part.
UploadSizes ==
    {0, 1, MIN_MULTIPART_SIZE - 1} \cup
    UNION {{n * MIN_MULTIPART_SIZE - 1, n * MIN_MULTIPART_SIZE, n * MIN_MULTIPART_SIZE + 1} :
           n \in 1..(MaxParts - 1)}

\* An update of an object of a size of UploadSizes, with upload_size either
\* its exact size or a larger maximum.
\*   history.size, max_size   the bytes of the object and the size announced
\*   history.exact            upload_size is ExactSize
\*   stores.s3                the requests the service has seen, in order
InitS3 ==
    /\ SchedulerInit
    /\ \E size \in UploadSizes :
       \E max_size \in {size, size + MIN_MULTIPART_SIZE} :
          /\ history = [size |-> size, max_size |-> max_size, exact |-> max_size = size]
          /\ tasks = [s3 |-> s3_update_begin(size)]
    /\ channels = <<>>
    /\ stores = [s3 |-> <<>>]

\* The upload in one request.
S3PutObject(read_ok, put_ok) ==
    /\ tasks.s3.pc = "start"
    /\ history.max_size < MIN_MULTIPART_SIZE
    /\ \E r \in {s3_put_object(tasks.s3, stores.s3, read_ok, put_ok)} :
          /\ tasks' = [tasks EXCEPT !.s3 = r.s]
          /\ stores' = [stores EXCEPT !.s3 = r.log]
    /\ UNCHANGED <<scheduler_vars, channels, history>>

S3CreateMultipartUpload(ok) ==
    /\ tasks.s3.pc = "start"
    /\ history.max_size >= MIN_MULTIPART_SIZE
    /\ \E r \in {s3_create_multipart_upload(tasks.s3, stores.s3, ok)} :
          /\ tasks' = [tasks EXCEPT !.s3 = r.s]
          /\ stores' = [stores EXCEPT !.s3 = r.log]
    /\ UNCHANGED <<scheduler_vars, channels, history>>

S3ReadPart(read_ok) ==
    /\ tasks.s3.pc = "read"
    /\ tasks' = [tasks EXCEPT !.s3 = s3_read_part(@, history.max_size, read_ok)]
    /\ UNCHANGED <<scheduler_vars, channels, stores, history>>

S3UploadPart(i, ok) ==
    /\ i \in 1..Len(tasks.s3.parts)
    /\ tasks.s3.parts[i] = "Pending"
    /\ \E r \in {s3_upload_part(tasks.s3, stores.s3, i, ok)} :
          /\ tasks' = [tasks EXCEPT !.s3 = r.s]
          /\ stores' = [stores EXCEPT !.s3 = r.log]
    /\ UNCHANGED <<scheduler_vars, channels, history>>

S3TryJoinAll ==
    /\ tasks.s3.pc = "join"
    /\ try_join_all_ready(tasks.s3)
    /\ tasks' = [tasks EXCEPT !.s3 = s3_try_join_all(@)]
    /\ UNCHANGED <<scheduler_vars, channels, stores, history>>

S3CompleteMultipartUpload(ok, abort_ok) ==
    /\ tasks.s3.pc = "complete"
    /\ \E r \in {s3_complete_multipart_upload(tasks.s3, stores.s3, ok, abort_ok)} :
          /\ tasks' = [tasks EXCEPT !.s3 = r.s]
          /\ stores' = [stores EXCEPT !.s3 = r.log]
    /\ UNCHANGED <<scheduler_vars, channels, history>>

NextS3 ==
    \/ \E read_ok \in BOOLEAN, put_ok \in BOOLEAN : S3PutObject(read_ok, put_ok)
    \/ \E ok \in BOOLEAN : S3CreateMultipartUpload(ok)
    \/ \E read_ok \in BOOLEAN : S3ReadPart(read_ok)
    \/ \E i \in 1..MaxParts, ok \in BOOLEAN : S3UploadPart(i, ok)
    \/ S3TryJoinAll
    \/ \E ok \in BOOLEAN, abort_ok \in BOOLEAN : S3CompleteMultipartUpload(ok, abort_ok)

SpecS3 == InitS3 /\ [][NextS3]_vars

\* ------------------------------------------ properties of S3Store::update
\* The service has seen a request of this kind that it answered this way.
Requested(op, ok) ==
    \E j \in 1..Len(stores.s3) : stores.s3[j].op = op /\ stores.s3[j].ok = ok

Aborting == \E ok \in BOOLEAN : Requested("AbortMultipartUpload", ok)

\* C30: when update has returned after create_multipart_upload succeeded,
\* the upload has been completed or an abort of it has been requested: a
\* failed read, part or completion is followed by AbortMultipartUpload before
\* update returns its error; and a failed abort is not what update returns.
MultipartUploadEnds ==
    tasks.s3.pc = "done" /\ tasks.s3.created =>
        /\ Requested("CompleteMultipartUpload", TRUE) \/ Aborting
        /\ tasks.s3.failed => Aborting /\ tasks.s3.res = "Err"
        /\ tasks.s3.res = "Ok" <=> Requested("CompleteMultipartUpload", TRUE)

\* ------------------------------------ specification: calculate_range alone
\* The largest bound of a range.
MaxRange == 4

\* calculate_range is called with every received_range and send_range of
\* bounds up to MaxRange, in a build with and in one without overflow checks.
\*   history.received_range, send_range, overflow_checks   the call
\*   tasks.called  the call was made;  tasks.range: what it came to
InitRange ==
    /\ SchedulerInit
    /\ \E rs \in 0..MaxRange, re \in 0..MaxRange, ss \in 0..MaxRange, se \in 0..MaxRange :
       \E overflow_checks \in BOOLEAN :
          history = [received_range |-> Range(rs, re), send_range |-> Range(ss, se),
                     overflow_checks |-> overflow_checks]
    /\ tasks = [called |-> FALSE,
                range |-> [some |-> FALSE, range |-> Range(0, 0), panic |-> FALSE]]
    /\ channels = <<>>
    /\ stores = <<>>

CalculateRange ==
    /\ ~tasks.called
    /\ tasks' = [tasks EXCEPT
                    !.called = TRUE,
                    !.range = calculate_range(history.received_range, history.send_range,
                                              history.overflow_checks)]
    /\ UNCHANGED <<scheduler_vars, channels, stores, history>>

NextRange == CalculateRange

SpecRange == InitRange /\ [][NextRange]_vars

\* The positions of a range.
RangeSet(range) == {i \in 0..MaxRange : range.start <= i /\ i < range.end}

\* C39: for a received_range that is not empty, calculate_range does not
\* panic, returns None when the two ranges have no position in common, and
\* otherwise the range of their common positions counted from
\* received_range.start.
CalculateRangeIntersects ==
    tasks.called /\ RangeSet(history.received_range) # {} =>
        LET common == RangeSet(history.received_range) \cap RangeSet(history.send_range) IN
        /\ ~tasks.range.panic
        /\ tasks.range.some <=> common # {}
        /\ tasks.range.some =>
              {i + history.received_range.start : i \in RangeSet(tasks.range.range)} = common

\* -------------------------------------- specification: MemoryStore::get_part
\* usize arithmetic without overflow checks
wrapping_sub(a, b) == (a - b) % (USIZE_MAX + 1)

wrapping_add(a, b) == (a + b) % (USIZE_MAX + 1)

\* MemoryStore::get_part of a stored value: value.len() - offset and
\* offset + length panic on overflow in a build with overflow checks and
\* wrap around in one without; the slice panics when it is out of range.
\*   written  the bytes written to the writer;  eof: the empty write and the
\*            shutdown that end the stream were made;  panic: the call panicked
memory_get_part(value, offset, length, overflow_checks) ==
    LET panicked_call == [written |-> <<>>, eof |-> FALSE, panic |-> TRUE]
        default_len == wrapping_sub(Len(value), offset)
        len == min(IF length = USIZE_MAX THEN default_len ELSE length, default_len)
        end == wrapping_add(offset, len)
    IN IF overflow_checks /\ offset > Len(value)
       THEN panicked_call
       ELSE IF overflow_checks /\ offset + len > USIZE_MAX
       THEN panicked_call
       ELSE IF offset > end \/ end > Len(value)
       THEN \* &value[offset..(offset + length)]
            panicked_call
       ELSE [written |-> slice(value, offset, end), eof |-> TRUE, panic |-> FALSE]

\* A get_part of a stored object of every size up to MaxBytes, with every
\* offset and length up to MaxOffset and with no length.
\*   history.object, offset, length, overflow_checks   the call; a length of
\*                  None is USIZE_MAX
\*   tasks.called   the call was made;  tasks.get_part: what it came to
InitMemory ==
    /\ SchedulerInit
    /\ \E size \in 0..MaxBytes :
       \E offset \in 0..MaxOffset :
       \E length \in (0..MaxOffset) \cup {USIZE_MAX} :
       \E overflow_checks \in BOOLEAN :
          history = [object |-> Bytes(1, size), offset |-> offset, length |-> length,
                     overflow_checks |-> overflow_checks]
    /\ tasks = [called |-> FALSE,
                get_part |-> [written |-> <<>>, eof |-> FALSE, panic |-> FALSE]]
    /\ channels = <<>>
    /\ stores = <<>>

MemoryGetPart ==
    /\ ~tasks.called
    /\ tasks' = [tasks EXCEPT
                    !.called = TRUE,
                    !.get_part = memory_get_part(history.object, history.offset,
                                                 history.length, history.overflow_checks)]
    /\ UNCHANGED <<scheduler_vars, channels, stores, history>>

NextMemory == MemoryGetPart

SpecMemory == InitMemory /\ [][NextMemory]_vars

\* C40: get_part of a stored object of size n writes the bytes
\* [min(offset, n), min(offset + length, n)) and then EOF, for every offset
\* and length, and does not panic.
MemoryGetPartWritesWindow ==
    tasks.called =>
        /\ ~tasks.get_part.panic
        /\ tasks.get_part.written = Window
        /\ tasks.get_part.eof

\* ------------------------------------------------ specification: Retrier::retry
\* The retrier is known here by its tests; what retry does is taken from its
\* description: the attempts run one after another, Ok and Err return, Retry
\* sleeps for the next duration of the schedule and runs the next attempt, and
\* a Retry that finds the schedule at its end returns its error.
\* The durations a schedule has at most.
MaxDelays == 3

\* The errors an attempt may give.
RetryErrors == {"Unavailable", "Internal"}

\* RetryResult
RetryResult(kind, err) == [kind |-> kind, err |-> err]

RetryResults ==
    {RetryResult("Ok", "")} \cup
    {RetryResult(kind, err) : kind \in {"Retry", "Err"}, err \in RetryErrors}

\*   pc        "run" (the next attempt is due), "sleep" (in sleep_fn), "done"
\*   schedule  the durations not yet taken
\*   duration  the duration being slept
\*   res       what retry has returned: "None" so far, "Ok", or the error
retry_begin(schedule) == [pc |-> "run", schedule |-> schedule, duration |-> 0, res |-> "None"]

\* An attempt whose Err is taken for a Retry.
retry_attempt_retrying_err(r, result) ==
    IF result.kind = "Ok"
    THEN [r EXCEPT !.pc = "done", !.res = "Ok"]
    ELSE IF r.schedule = <<>>
         THEN [r EXCEPT !.pc = "done", !.res = result.err]
         ELSE [r EXCEPT !.pc = "sleep", !.duration = Head(r.schedule),
                        !.schedule = Tail(r.schedule)]

\* An attempt has run and given its result.
retry_attempt(r, result) ==
    IF result.kind = "Ok"
    THEN [r EXCEPT !.pc = "done", !.res = "Ok"]
    ELSE IF result.kind = "Err"
         THEN [r EXCEPT !.pc = "done", !.res = result.err]
         ELSE IF r.schedule = <<>>
              THEN [r EXCEPT !.pc = "done", !.res = result.err]
              ELSE [r EXCEPT !.pc = "sleep", !.duration = Head(r.schedule),
                             !.schedule = Tail(r.schedule)]

\* sleep_fn(duration) returns.
retry_sleep(r) == [r EXCEPT !.pc = "run", !.duration = 0]

\* A retry over a schedule of 0 to MaxDelays durations, each different, with
\* an action that gives any result at each attempt.
\*   history.schedule   the schedule handed to retry
\*   history.results    the results of the attempts run, in order
\*   history.slept      the durations sleep_fn was called with, in order
InitRetry ==
    /\ SchedulerInit
    /\ \E k \in 0..MaxDelays :
          /\ history = [schedule |-> [i \in 1..k |-> i], results |-> <<>>, slept |-> <<>>]
          /\ tasks = [retry |-> retry_begin([i \in 1..k |-> i])]
    /\ channels = <<>>
    /\ stores = <<>>

RetryAttempt(result) ==
    /\ tasks.retry.pc = "run"
    /\ tasks' = [tasks EXCEPT !.retry = retry_attempt(@, result)]
    /\ history' = [history EXCEPT !.results = Append(@, result)]
    /\ UNCHANGED <<scheduler_vars, channels, stores>>

RetrySleep ==
    /\ tasks.retry.pc = "sleep"
    /\ tasks' = [tasks EXCEPT !.retry = retry_sleep(@)]
    /\ history' = [history EXCEPT !.slept = Append(@, tasks.retry.duration)]
    /\ UNCHANGED <<scheduler_vars, channels, stores>>

NextRetry ==
    \/ \E result \in RetryResults : RetryAttempt(result)
    \/ RetrySleep

SpecRetry == InitRetry /\ [][NextRetry]_vars

\* C35: the sleeps take the durations of the schedule in order, one after
\* each Retry that is followed by a run and none before the first run; retry
\* returns at the first Ok or Err, an Err giving its error with no further
\* sleep; with every attempt a Retry there are k + 1 runs and k sleeps for a
\* schedule of k durations, and the error returned is that of the last Retry.
RetrierRunsAndSleeps ==
    LET runs == Len(history.results)
        k == Len(history.schedule)
    IN /\ history.slept = SubSeq(history.schedule, 1, Len(history.slept))
       /\ \A j \in 1..(runs - 1) : history.results[j].kind = "Retry"
       /\ tasks.retry.pc = "run" => Len(history.slept) = runs
       /\ tasks.retry.pc = "done" =>
             LET last == history.results[runs] IN
             /\ Len(history.slept) = runs - 1
             /\ last.kind = "Ok" => tasks.retry.res = "Ok"
             /\ last.kind = "Err" => tasks.retry.res = last.err
             /\ last.kind = "Retry" => runs = k + 1 /\ tasks.retry.res = last.err
       /\ tasks.retry.pc # "done" =>
             /\ tasks.retry.res = "None"
             /\ runs >= 1 => history.results[runs].kind = "Retry"

\* A schedule of two durations was used up by three attempts that gave Retry,
\* and the error of the third was returned.
RetriedToTheEnd ==
    /\ Len(history.schedule) = 2
    /\ history.slept = history.schedule
    /\ Len(history.results) = 3
    /\ history.results[1] = RetryResult("Retry", "Unavailable")
    /\ history.results[3] = RetryResult("Retry", "Internal")
    /\ tasks.retry.res = "Internal"

\* ------------------------------------------ specification: ResourceInfo::new
\* A resource name is a sequence of characters; a segment is one without '/'.
\* The segments a name has at most.
MaxSegments == 7

uploads == <<"u", "p", "l", "o", "a", "d", "s">>

blobs == <<"b", "l", "o", "b", "s">>

\* The segments the names are made of: an instance name, the two literals, a
\* size and a number with a sign.
Segments == {<<"i">>, uploads, blobs, <<"1", "2">>, <<"-", "1">>}

Digits == <<"0", "1", "2", "3", "4", "5", "6", "7", "8", "9">>

\* The segments joined with '/'.
RECURSIVE join(_)
join(segments) ==
    IF segments = <<>> THEN <<>>
    ELSE IF Len(segments) = 1 THEN segments[1]
    ELSE segments[1] \o <<"/">> \o join(Tail(segments))

\* str::find('/'): the index of the first '/', 0 when there is none.
find_slash(str) ==
    IF \E i \in 1..Len(str) : str[i] = "/"
    THEN CHOOSE i \in 1..Len(str) : str[i] = "/" /\ \A j \in 1..(i - 1) : str[j] # "/"
    ELSE 0

\* str::splitn(n, '/'): at most n parts, the last one the rest of the string.
RECURSIVE splitn(_, _)
splitn(str, n) ==
    IF n = 1 \/ find_slash(str) = 0
    THEN <<str>>
    ELSE <<SubSeq(str, 1, find_slash(str) - 1)>> \o
         splitn(SubSeq(str, find_slash(str) + 1, Len(str)), n - 1)

digit_value(ch) == (CHOOSE i \in 1..10 : Digits[i] = ch) - 1

is_digit(ch) == \E i \in 1..10 : Digits[i] = ch

RECURSIVE digits_value(_)
digits_value(str) ==
    IF str = <<>> THEN 0
    ELSE digits_value(SubSeq(str, 1, Len(str) - 1)) * 10 + digit_value(str[Len(str)])

\* str::parse::<usize>: an optional '+' and one digit or more, no more than
\* usize holds.
parse_usize(str) ==
    LET digits == IF str # <<>> /\ str[1] = "+" THEN Tail(str) ELSE str
    IN IF digits = <<>> \/ \E i \in 1..Len(digits) : ~is_digit(digits[i])
       THEN [ok |-> FALSE, value |-> 0]
       ELSE IF digits_value(digits) > USIZE_MAX
            THEN [ok |-> FALSE, value |-> 0]
            ELSE [ok |-> TRUE, value |-> digits_value(digits)]

ResourceInfo(instance_name, uuid, hash, expected_size) ==
    [ok |-> TRUE, instance_name |-> instance_name, uuid |-> uuid, hash |-> hash,
     expected_size |-> expected_size]

ResourceInfoErr ==
    [ok |-> FALSE, instance_name |-> <<>>, uuid |-> [some |-> FALSE, value |-> <<>>],
     hash |-> <<>>, expected_size |-> 0]

\* ResourceInfo::new
ResourceInfo_new(resource_name) ==
    LET parts == splitn(resource_name, 6)
        has_uuid == Len(parts) >= 2 /\ parts[2] = uploads
        \* the parts left after the uuid, if there is one, was taken
        rest == IF has_uuid THEN SubSeq(parts, 4, Len(parts))
                ELSE SubSeq(parts, 2, Len(parts))
    IN IF Len(parts) < 2 THEN ResourceInfoErr
       ELSE IF has_uuid /\ Len(parts) < 4 THEN ResourceInfoErr
       ELSE IF rest[1] # blobs THEN ResourceInfoErr
       ELSE IF Len(rest) < 3 THEN ResourceInfoErr
       ELSE IF ~parse_usize(rest[3]).ok THEN ResourceInfoErr
       ELSE ResourceInfo(parts[1],
                         IF has_uuid THEN [some |-> TRUE, value |-> parts[3]]
                         ELSE [some |-> FALSE, value |-> <<>>],
                         rest[2],
                         parse_usize(rest[3]).value)

\* Every sequence of up to MaxSegments segments.
RECURSIVE SegmentSeqs(_)
SegmentSeqs(n) ==
    IF n = 0 THEN {<<>>}
    ELSE SegmentSeqs(n - 1) \cup
         {Append(segs, seg) : segs \in {q \in SegmentSeqs(n - 1) : Len(q) = n - 1},
                              seg \in Segments}

\*   history.segments        the segments of the name
\*   history.resource_name   the name
\*   tasks                   whether ResourceInfo::new ran, and what it returned
InitResourceInfo ==
    /\ SchedulerInit
    /\ \E segments \in SegmentSeqs(MaxSegments) :
          history = [segments |-> segments, resource_name |-> join(segments)]
    /\ tasks = [called |-> FALSE, info |-> ResourceInfoErr]
    /\ channels = <<>>
    /\ stores = <<>>

ResourceInfoNew ==
    /\ ~tasks.called
    /\ tasks' = [called |-> TRUE, info |-> ResourceInfo_new(history.resource_name)]
    /\ UNCHANGED <<scheduler_vars, channels, stores, history>>

NextResourceInfo == ResourceInfoNew

SpecResourceInfo == InitResourceInfo /\ [][NextResourceInfo]_vars

\* The name is {instance}/blobs/{hash}/{size} with one more segment or none.
BlobsForm(segments) ==
    /\ Len(segments) \in {4, 5}
    /\ segments[2] = blobs
    /\ segments[1] # <<>> /\ segments[3] # <<>>
    /\ parse_usize(segments[4]).ok

\* The name is {instance}/uploads/{uuid}/blobs/{hash}/{size} with one more
\* segment or none.
UploadsForm(segments) ==
    /\ Len(segments) \in {6, 7}
    /\ segments[2] = uploads
    /\ segments[4] = blobs
    /\ segments[1] # <<>> /\ segments[3] # <<>> /\ segments[5] # <<>>
    /\ parse_usize(segments[6]).ok

\* C34: ResourceInfo::new accepts {instance}/blobs/{hash}/{size} and
\* {instance}/uploads/{uuid}/blobs/{hash}/{size}, each with one more segment
\* after it or none, and returns the instance, the uuid if there is one, the
\* hash and the size; it rejects a name without the literal blobs as its
\* second segment, or its fourth after uploads, and a name whose size is not
\* a non-negative integer.
ResourceNameParsed ==
    tasks.called =>
        LET segments == history.segments
            info == tasks.info
            n == Len(segments)
            after == IF n >= 2 /\ segments[2] = uploads THEN 2 ELSE 0
        IN /\ BlobsForm(segments) =>
                 /\ info.ok
                 /\ info.instance_name = segments[1]
                 /\ ~info.uuid.some
                 /\ info.hash = segments[3]
                 /\ info.expected_size = parse_usize(segments[4]).value
           /\ UploadsForm(segments) =>
                 /\ info.ok
                 /\ info.instance_name = segments[1]
                 /\ info.uuid = [some |-> TRUE, value |-> segments[3]]
                 /\ info.hash = segments[5]
                 /\ info.expected_size = parse_usize(segments[6]).value
           /\ (n < after + 2 \/ segments[after + 2] # blobs) => ~info.ok
           /\ (n < after + 4 \/ ~parse_usize(segments[after + 4]).ok) => ~info.ok

\* ---------------------------------------- specification: ByteStreamServer::write
\* The messages a client stream has at most.
MaxMsgs == 3

\* The bytes a WriteRequest carries at most.
MaxData == 2

\* The largest expected_size of a resource name.
MaxExpected == 2

\* The largest write_buffer_stream_size.
MaxBuffer == 2

\* WriteRequest: the data and finish_write.
WriteRequest(data, finish_write) == [data |-> data, finish_write |-> finish_write]

\* async_fixed_buffer.rs is known here by its tests and by what
\* tokio::io::split gives: a buffer of a fixed size between a write half and
\* a read half. A write copies what fits and waits while nothing does; a read
\* takes what is there and waits while nothing is; the write half learns
\* nothing of a read half that is dropped.
\* An empty write marks the end of the stream; a shutdown with no end marked
\* makes the reads fail once the buffer is empty.
\*   buf            the bytes written and not yet read
\*   capacity       the size of the buffer
\*   received_eof   an empty write was made
\*   did_shutdown   the write half was shut down
fixed_buf_new(capacity) ==
    [buf |-> <<>>, capacity |-> capacity, received_eof |-> FALSE, did_shutdown |-> FALSE]

fixed_buf_space(c) == c.capacity - Len(c.buf)

\* poll_write of a buffer that is not empty: ready when there is space.
fixed_buf_write_ready(c) == fixed_buf_space(c) > 0

\* poll_write: copies what fits.
fixed_buf_write(c, data) ==
    [c EXCEPT !.buf = @ \o SubSeq(data, 1, min(Len(data), fixed_buf_space(c)))]

\* poll_read with a buffer of n bytes: takes what is there, n bytes at most.
fixed_buf_read(c, n) == [c EXCEPT !.buf = SubSeq(@, min(n, Len(@)) + 1, Len(@))]

\* WriteRequestStreamWrapper::from, the stream having given its first message.
WriteRequestStreamWrapper_from(current_msg, expected_size) ==
    [current_msg |-> current_msg, expected_size |-> expected_size,
     is_first |-> TRUE, bytes_received |-> 0]

\* WriteRequestStreamWrapper::next. item is "Some" (current_msg is yielded),
\* "None" or "Err".
WriteRequestStreamWrapper_next(w, stream) ==
    IF w.is_first
    THEN [w |-> [w EXCEPT !.is_first = FALSE,
                          !.bytes_received = @ + Len(w.current_msg.data)],
          stream |-> stream, item |-> "Some"]
    ELSE IF w.current_msg.finish_write
    THEN IF w.bytes_received # w.expected_size
         THEN [w |-> w, stream |-> stream, item |-> "Err"]
         ELSE [w |-> w, stream |-> stream, item |-> "None"]
    ELSE IF w.bytes_received > w.expected_size
    THEN [w |-> w, stream |-> stream, item |-> "Err"]
    ELSE IF stream = <<>>
    THEN [w |-> w, stream |-> stream, item |-> "Err"]
    ELSE [w |-> [w EXCEPT !.current_msg = Head(stream),
                          !.bytes_received = @ + Len(Head(stream).data)],
          stream |-> Tail(stream), item |-> "Some"]

\*   pc        "from", "next" (at stream.next()), "write_all", "join", "done"
\*   stream    the messages the client has yet to send
\*   wrapper   the WriteRequestStreamWrapper
\*   data      what tx.write_all has yet to write
\*   res       what write returned: "None" so far, "Ok" or "Err"
\*   committed_size   of the WriteResponse
inner_write_begin(stream) ==
    [pc |-> "from", stream |-> stream,
     wrapper |-> WriteRequestStreamWrapper_from(WriteRequest(<<>>, FALSE), 0),
     data |-> <<>>, res |-> "None", committed_size |-> 0]

inner_write_return(t, res) == [t EXCEPT !.pc = "done", !.res = res]

\* write: WriteRequestStreamWrapper::from, then inner_write up to its loop.
inner_write_from(t, expected_size) ==
    IF t.stream = <<>>
    THEN inner_write_return(t, "Err")
    ELSE [t EXCEPT !.pc = "next", !.stream = Tail(t.stream),
                   !.wrapper = WriteRequestStreamWrapper_from(Head(t.stream), expected_size)]

\* inner_write: stream.next().await.err_tip(..)? of the loop.
inner_write_next(t) ==
    LET r == WriteRequestStreamWrapper_next(t.wrapper, t.stream)
        t1 == [t EXCEPT !.wrapper = r.w, !.stream = r.stream]
    IN IF r.item = "Err" THEN inner_write_return(t1, "Err")
       ELSE IF r.item = "None" THEN [t1 EXCEPT !.pc = "join"]
       ELSE IF r.w.current_msg.data = <<>> THEN t1
       ELSE [t1 EXCEPT !.pc = "write_all", !.data = r.w.current_msg.data]

\* inner_write: tx.write_all(&write_request.data), one poll_write of it.
inner_write_write_all(t, c) ==
    LET n == min(Len(t.data), fixed_buf_space(c))
        rest == SubSeq(t.data, n + 1, Len(t.data))
    IN [t EXCEPT !.data = rest, !.pc = IF rest = <<>> THEN "next" ELSE "write_all"]

\* inner_write: join_handle.await and the response.
inner_write_join(t) ==
    [inner_write_return(t, "Ok") EXCEPT !.committed_size = t.wrapper.bytes_received]

\* MemoryStore::update over rx.take(expected_size).
\*   pc       "read" (in read_to_end), "done"
\*   limit    what Take has left
\*   buffer   the bytes read
memory_update_begin(expected_size) == [pc |-> "read", limit |-> expected_size, buffer |-> <<>>]

\* read_to_end: one read of the Take; with its limit at 0 it is the end.
memory_update_read(u, c) ==
    IF u.limit = 0
    THEN [u EXCEPT !.pc = "done"]
    ELSE LET n == min(u.limit, Len(c.buf))
         IN [u EXCEPT !.limit = @ - n, !.buffer = @ \o SubSeq(c.buf, 1, n)]

\* The messages of a stream: data of 0 to MaxData bytes each, the bytes of
\* the stream numbered from 1, and finish_write set or not on each.
RECURSIVE Streams(_, _)
Streams(first, n) ==
    IF n = 0 THEN {<<>>}
    ELSE {<<>>} \cup
         {<<WriteRequest(Bytes(first, len), finish_write)>> \o rest :
             len \in 0..MaxData, finish_write \in BOOLEAN,
             rest \in UNION {Streams(first + l, n - 1) : l \in 0..MaxData}}

\* The data of the messages, one after another.
RECURSIVE concat(_)
concat(stream) ==
    IF stream = <<>> THEN <<>> ELSE Head(stream).data \o concat(Tail(stream))

WellNumbered(stream) == concat(stream) = Bytes(1, Len(concat(stream)))

\*   history.stream          the messages of the client
\*   history.expected_size   of the resource name of the first message
\*   history.yielded         the messages next() gave to the loop
\*   tasks.write             write and inner_write
\*   tasks.update            the spawned update of the store
\*   channels.fixed_buf      the AsyncFixedBuf between them
\*   stores.map              the MemoryStore: what it holds for the digest
InitWrite ==
    /\ SchedulerInit
    /\ \E stream \in {s \in Streams(1, MaxMsgs) : WellNumbered(s)} :
       \E expected_size \in 0..MaxExpected :
          /\ history = [stream |-> stream, expected_size |-> expected_size,
                        yielded |-> <<>>]
          /\ tasks = [write |-> inner_write_begin(stream),
                      update |-> memory_update_begin(expected_size)]
    /\ \E capacity \in 1..MaxBuffer : channels = [fixed_buf |-> fixed_buf_new(capacity)]
    /\ stores = [map |-> [has |-> FALSE, value |-> <<>>]]

WriteFrom ==
    /\ tasks.write.pc = "from"
    /\ tasks' = [tasks EXCEPT !.write = inner_write_from(@, history.expected_size)]
    /\ UNCHANGED <<scheduler_vars, channels, stores, history>>

WriteNext ==
    /\ tasks.write.pc = "next"
    /\ tasks' = [tasks EXCEPT !.write = inner_write_next(@)]
    /\ history' = [history EXCEPT !.yielded =
          IF WriteRequestStreamWrapper_next(tasks.write.wrapper, tasks.write.stream).item = "Some"
          THEN Append(@, WriteRequestStreamWrapper_next(tasks.write.wrapper,
                                                        tasks.write.stream).w.current_msg)
          ELSE @]
    /\ UNCHANGED <<scheduler_vars, channels, stores>>

WriteAll ==
    /\ tasks.write.pc = "write_all"
    /\ fixed_buf_write_ready(channels.fixed_buf)
    /\ tasks' = [tasks EXCEPT !.write = inner_write_write_all(@, channels.fixed_buf)]
    /\ channels' = [channels EXCEPT !.fixed_buf = fixed_buf_write(@, tasks.write.data)]
    /\ UNCHANGED <<scheduler_vars, stores, history>>

\* The spawned task runs from the moment inner_write spawns it.
UpdateRead ==
    /\ tasks.write.pc # "from"
    /\ tasks.update.pc = "read"
    /\ tasks.update.limit = 0 \/ channels.fixed_buf.buf # <<>>
    /\ tasks' = [tasks EXCEPT !.update = memory_update_read(@, channels.fixed_buf)]
    /\ channels' = [channels EXCEPT !.fixed_buf =
                       IF tasks.update.limit = 0 THEN @
                       ELSE fixed_buf_read(@, tasks.update.limit)]
    /\ stores' = IF tasks.update.limit = 0
                 THEN [stores EXCEPT !.map = [has |-> TRUE, value |-> tasks.update.buffer]]
                 ELSE stores
    /\ UNCHANGED <<scheduler_vars, history>>

WriteJoin ==
    /\ tasks.write.pc = "join"
    /\ tasks.update.pc = "done"
    /\ tasks' = [tasks EXCEPT !.write = inner_write_join(@)]
    /\ UNCHANGED <<scheduler_vars, channels, stores, history>>

NextWrite == WriteFrom \/ WriteNext \/ WriteAll \/ UpdateRead \/ WriteJoin

SpecWrite == InitWrite /\ [][NextWrite]_vars /\ WF_vars(NextWrite)

\* C32: the data bytes of the messages next() has given to the write loop,
\* which the loop hands to tx.write_all, are expected_size at most in every
\* state.
YieldedWithinExpectedSize ==
    Len(concat(history.yielded)) <= history.expected_size

\* The index of the first message with finish_write, 0 when no message has it.
FinishIndex(stream) ==
    IF \E i \in 1..Len(stream) : stream[i].finish_write
    THEN CHOOSE i \in 1..Len(stream) :
            stream[i].finish_write /\ \A j \in 1..(i - 1) : ~stream[j].finish_write
    ELSE 0

\* The data of the messages up to the one with finish_write.
FinishedData(stream) == concat(SubSeq(stream, 1, FinishIndex(stream)))

\* The message with finish_write brings the data to expected_size.
WholeStream ==
    /\ FinishIndex(history.stream) > 0
    /\ Len(FinishedData(history.stream)) = history.expected_size

WriteOk == tasks.write.res = "Ok"

WriteErr == tasks.write.res = "Err"

\* A write that succeeded had a whole stream, committed expected_size bytes
\* and left the data of its messages in the store.
WriteOkOnlyWhole ==
    WriteOk =>
        /\ WholeStream
        /\ tasks.write.committed_size = history.expected_size
        /\ tasks.write.committed_size = Len(concat(history.yielded))
        /\ stores.map = [has |-> TRUE, value |-> FinishedData(history.stream)]

\* C31: a write succeeds only if the message with finish_write brings the
\* data received to expected_size, committed_size is then expected_size and
\* the store holds the data of the messages one after another; a write whose
\* stream ends without finish_write, or whose data is not expected_size when
\* finish_write comes, fails.
WriteSucceedsOnlyWhole ==
    /\ []WriteOkOnlyWhole
    /\ [](~WholeStream => <>WriteErr)

\* ----------------------------------------- specification: ByteStreamServer::read
\* The largest max_bytes_per_stream.
MaxPerStream == 2

\* Error: its code; the messages are left out.
NotFound == "NotFound"

Internal == "Internal"

\* Error::merge: the code of the error merged into is kept.
merge(err, e) == err

\* poll_write of an empty buffer: the end of the stream.
fixed_buf_write_eof(c) == [c EXCEPT !.received_eof = TRUE]

\* poll_shutdown
fixed_buf_shutdown(c) == [c EXCEPT !.did_shutdown = TRUE]

\* poll_read: ready with bytes, with the end of the stream or with the error
\* of a write half that was shut down.
fixed_buf_read_ready(c) == c.buf # <<>> \/ c.received_eof \/ c.did_shutdown

\* poll_read with a buffer of n bytes: what the read returns.
fixed_buf_read_result(c, n) ==
    IF c.buf # <<>> THEN OkBytes(SubSeq(c.buf, 1, min(n, Len(c.buf))))
    ELSE IF c.received_eof THEN OkBytes(<<>>)
    ELSE ErrBytes(Internal)

\* The spawned reading_future of inner_read.
\*   pc     "get_part", "write_all", "eof", "shutdown" (in get_part),
\*          "tx_shutdown", "done", "panicked"
\*   data   what write_all has yet to write
\*   p      what get_part returned: "None" so far, "Ok" or the code of its error
\*   res    what the task returned
reading_future_begin == [pc |-> "get_part", data |-> <<>>, p |-> "None", res |-> "None"]

\* MemoryStore::get_part up to its write_all; map.get(&digest) fails with
\* NotFound for a digest that is not stored.
reading_future_get_part(r, map, offset, length, overflow_checks) ==
    IF ~map.has
    THEN [r EXCEPT !.pc = "tx_shutdown", !.p = NotFound]
    ELSE LET g == memory_get_part(map.value, offset, length, overflow_checks)
         IN IF g.panic THEN [r EXCEPT !.pc = "panicked"]
            ELSE [r EXCEPT !.pc = IF g.written = <<>> THEN "eof" ELSE "write_all",
                           !.data = g.written]

\* MemoryStore::get_part: writer.write_all, one poll_write of it.
reading_future_write_all(r, c) ==
    LET n == min(Len(r.data), fixed_buf_space(c))
        rest == SubSeq(r.data, n + 1, Len(r.data))
    IN [r EXCEPT !.data = rest, !.pc = IF rest = <<>> THEN "eof" ELSE "write_all"]

\* MemoryStore::get_part: writer.write(&[])
reading_future_eof(r) == [r EXCEPT !.pc = "shutdown"]

\* MemoryStore::get_part: writer.shutdown() and Ok(())
reading_future_shutdown(r) == [r EXCEPT !.pc = "tx_shutdown", !.p = "Ok"]

\* reading_future: tx.shutdown() and p
reading_future_tx_shutdown(r) == [r EXCEPT !.pc = "done", !.res = r.p]

\* The ReadStream that inner_read returns.
\*   state   "Some" (a ReaderState), "None", "Ended" (the stream gave None)
\*   limit   what the Take of rx has left, USIZE_MAX with no read_limit
read_stream_begin(read_limit) ==
    [state |-> "Some", limit |-> IF read_limit # 0 THEN read_limit ELSE USIZE_MAX]

\* state.rx.read(&mut response.data[..]): a Take with nothing left gives 0
\* bytes and does not read.
rx_read(s, c, max_bytes_per_stream) ==
    IF s.limit = 0 THEN OkBytes(<<>>)
    ELSE fixed_buf_read_result(c, min(max_bytes_per_stream, s.limit))

\* The poll of the stream can go on: the read is ready, and after its error
\* the reading_future has ended.
read_stream_next_ready(s, c, r) ==
    \/ s.state = "None"
    \/ /\ s.state = "Some"
       /\ s.limit = 0 \/ fixed_buf_read_ready(c)
       /\ ~rx_read(s, c, 1).ok => r.pc \in {"done", "panicked"}

\* The closure of unfold that leaves the error of the read as it is.
read_stream_next_without_merge(s, c, r, max_bytes_per_stream) ==
    LET read_result == rx_read(s, c, max_bytes_per_stream)
    IN IF s.state = "None"
       THEN [s |-> [s EXCEPT !.state = "Ended"], some |-> FALSE, item |-> OkBytes(<<>>),
             read |-> 0]
       ELSE IF read_result.ok
       THEN [s |-> [s EXCEPT !.state = IF read_result.chunk = <<>> THEN "None" ELSE "Some",
                             !.limit = IF @ = USIZE_MAX THEN @
                                       ELSE @ - Len(read_result.chunk)],
             some |-> TRUE, item |-> read_result, read |-> Len(read_result.chunk)]
       ELSE [s |-> [s EXCEPT !.state = "None"], some |-> TRUE, item |-> read_result,
             read |-> 0]

\* The closure of unfold: the stream gives an item (some) or ends. read is
\* the number of bytes taken from the buffer.
read_stream_next(s, c, r, max_bytes_per_stream) ==
    LET read_result == rx_read(s, c, max_bytes_per_stream)
    IN IF s.state = "None"
       THEN [s |-> [s EXCEPT !.state = "Ended"], some |-> FALSE, item |-> OkBytes(<<>>),
             read |-> 0]
       ELSE IF read_result.ok
       THEN [s |-> [s EXCEPT !.state = IF read_result.chunk = <<>> THEN "None" ELSE "Some",
                             !.limit = IF @ = USIZE_MAX THEN @
                                       ELSE @ - Len(read_result.chunk)],
             some |-> TRUE, item |-> read_result, read |-> Len(read_result.chunk)]
       ELSE [s |-> [s EXCEPT !.state = "None"], some |-> TRUE,
             item |-> IF r.pc = "done" /\ r.res # "Ok"
                      THEN ErrBytes(merge(r.res, read_result.err))
                      ELSE read_result,
             read |-> 0]

\* A read of a digest that is stored, with every size up to MaxBytes, or not
\* stored, with every read_offset and read_limit up to MaxOffset.
\*   history.items   the items the response stream gave, in order
InitRead ==
    /\ SchedulerInit
    /\ \E read_offset \in 0..MaxOffset, read_limit \in 0..MaxOffset,
          max_bytes_per_stream \in 1..MaxPerStream, overflow_checks \in BOOLEAN :
          /\ history = [read_offset |-> read_offset, read_limit |-> read_limit,
                        max_bytes_per_stream |-> max_bytes_per_stream,
                        overflow_checks |-> overflow_checks, items |-> <<>>]
          /\ tasks = [reading_future |-> reading_future_begin,
                      read_stream |-> read_stream_begin(read_limit)]
    /\ \E capacity \in 1..MaxBuffer : channels = [fixed_buf |-> fixed_buf_new(capacity)]
    /\ \E stored \in BOOLEAN, size \in 0..MaxBytes :
          /\ ~stored => size = 0
          /\ stores = [map |-> [has |-> stored, value |-> Bytes(1, size)]]

ReadingFutureGetPart ==
    /\ tasks.reading_future.pc = "get_part"
    /\ tasks' = [tasks EXCEPT !.reading_future =
          reading_future_get_part(@, stores.map, history.read_offset,
                                  IF history.read_limit # 0 THEN history.read_limit
                                  ELSE USIZE_MAX,
                                  history.overflow_checks)]
    /\ UNCHANGED <<scheduler_vars, channels, stores, history>>

ReadingFutureWriteAll ==
    /\ tasks.reading_future.pc = "write_all"
    /\ fixed_buf_write_ready(channels.fixed_buf)
    /\ tasks' = [tasks EXCEPT !.reading_future = reading_future_write_all(@, channels.fixed_buf)]
    /\ channels' = [channels EXCEPT !.fixed_buf = fixed_buf_write(@, tasks.reading_future.data)]
    /\ UNCHANGED <<scheduler_vars, stores, history>>

ReadingFutureEof ==
    /\ tasks.reading_future.pc = "eof"
    /\ tasks' = [tasks EXCEPT !.reading_future = reading_future_eof(@)]
    /\ channels' = [channels EXCEPT !.fixed_buf = fixed_buf_write_eof(@)]
    /\ UNCHANGED <<scheduler_vars, stores, history>>

ReadingFutureShutdown ==
    /\ tasks.reading_future.pc = "shutdown"
    /\ tasks' = [tasks EXCEPT !.reading_future = reading_future_shutdown(@)]
    /\ channels' = [channels EXCEPT !.fixed_buf = fixed_buf_shutdown(@)]
    /\ UNCHANGED <<scheduler_vars, stores, history>>

ReadingFutureTxShutdown ==
    /\ tasks.reading_future.pc = "tx_shutdown"
    /\ tasks' = [tasks EXCEPT !.reading_future = reading_future_tx_shutdown(@)]
    /\ channels' = [channels EXCEPT !.fixed_buf = fixed_buf_shutdown(@)]
    /\ UNCHANGED <<scheduler_vars, stores, history>>

ReadStreamNext ==
    /\ tasks.read_stream.state # "Ended"
    /\ read_stream_next_ready(tasks.read_stream, channels.fixed_buf, tasks.reading_future)
    /\ \E n \in {read_stream_next(tasks.read_stream, channels.fixed_buf,
                                  tasks.reading_future, history.max_bytes_per_stream)} :
          /\ tasks' = [tasks EXCEPT !.read_stream = n.s]
          /\ channels' = [channels EXCEPT !.fixed_buf = fixed_buf_read(@, n.read)]
          /\ history' = [history EXCEPT !.items =
                            IF n.some THEN Append(@, n.item) ELSE @]
    /\ UNCHANGED <<scheduler_vars, stores>>

NextRead ==
    \/ ReadingFutureGetPart
    \/ ReadingFutureWriteAll
    \/ ReadingFutureEof
    \/ ReadingFutureShutdown
    \/ ReadingFutureTxShutdown
    \/ ReadStreamNext

\* The spawned task runs and the client polls the stream it was given.
SpecRead ==
    /\ InitRead
    /\ [][NextRead]_vars
    /\ WF_vars(ReadingFutureGetPart \/ ReadingFutureWriteAll \/ ReadingFutureEof
               \/ ReadingFutureShutdown \/ ReadingFutureTxShutdown)
    /\ WF_vars(ReadStreamNext)

\* The digest is not in the store.
Absent == ~stores.map.has

\* The stream gave one item, an error of code NotFound, and ended, and the
\* reading_future returned.
ReadEndedNotFound ==
    /\ Absent
    /\ history.items = <<ErrBytes(NotFound)>>
    /\ tasks.read_stream.state = "Ended"
    /\ tasks.reading_future.pc = "done"

\* C33: the response stream of a read of a digest that is not stored gives
\* one item, an error of code NotFound, and ends, and the reading_future
\* returns: neither waits for ever.
ReadOfAbsentEndsNotFound ==
    /\ [](Absent => history.items \in {<<>>, <<ErrBytes(NotFound)>>})
    /\ Absent ~> ReadEndedNotFound

\* ------------------------- specification: CompletenessCheckingStore::has_with_results
\* The action result digests of a call at most.
MaxActions == 2

\* The digests of the CAS that action results and trees refer to.
CasDigests == {"d1", "d2"}

None == [some |-> FALSE, value |-> 0]

Some(value) == [some |-> TRUE, value |-> value]

\* What the AC store and the CAS hold for one action result digest.
\*   ac      "Found", "NotFound" or "Invalid" (it does not decode)
\*   size    the size of the action result
\*   files   the digests of output_files, stdout_digest and stderr_digest
\*   tree    "None" (no output directory), "NotFound" (the tree digest is not
\*           in the CAS) or "Found"
\*   children   the digests of the files and directories of the tree
ActionResults ==
    [ac : {"NotFound", "Invalid"}, size : {0}, files : {<<>>}, tree : {"None"},
     children : {<<>>}]
    \cup
    [ac : {"Found"}, size : {1}, files : {<<>>, <<"d1">>, <<"d2">>, <<"d1", "d2">>},
     tree : {"None", "NotFound"}, children : {<<>>}]
    \cup
    [ac : {"Found"}, size : {1}, files : {<<>>, <<"d1">>, <<"d2">>, <<"d1", "d2">>},
     tree : {"Found"}, children : {<<>>, <<"d2">>}]

\* inner_has_with_results: the State behind state_mux, the Notify, the
\* per-action futures, check_existance_fut and the loop of select!.
\*   results, digests_to_check, digests_to_check_idxs, done   State
\*   notify    the Notify holds a permit
\*   futures   per index: "get" (at get_size_and_decode_digest), "trees" (at
\*             get_and_decode_digest of its tree), "Ok" or "Err" (ended, not
\*             yet taken by futures.next()), "taken"
\*   checker   pc: "notified" (at notify.notified()), "has" (at
\*             cas_store.has_with_results), "Ok" (broke out of its loop), "Err";
\*             digests, indexes: the batch in flight
\*   pc        "select", "await" (at the last await of check_existance_fut),
\*             "done";  res: "None" so far, "Ok" or "Err"
has_begin(n) ==
    [results |-> [i \in 1..n |-> None],
     digests_to_check |-> <<>>, digests_to_check_idxs |-> <<>>, done |-> FALSE,
     notify |-> FALSE,
     futures |-> [i \in 1..n |-> "get"],
     checker |-> [pc |-> "notified", digests |-> <<>>, indexes |-> <<>>],
     pc |-> "select", res |-> "None"]

\* digests_to_check.extend(digest_infos), digests_to_check_idxs.extend(..)
\* and notify_one()
handle_digest_infos(h, i, digest_infos) ==
    [h EXCEPT !.digests_to_check = @ \o digest_infos,
              !.digests_to_check_idxs = @ \o [k \in 1..Len(digest_infos) |-> i],
              !.notify = TRUE]

\* A per-action future from get_size_and_decode_digest to its end or to
\* check_output_directories.
future_get(h, i, a) ==
    IF a.ac # "Found"
    THEN [h EXCEPT !.futures[i] = "Err"]
    ELSE [handle_digest_infos([h EXCEPT !.results[i] = Some(a.size)], i, a.files)
             EXCEPT !.futures[i] = IF a.tree = "None" THEN "Ok" ELSE "trees"]

\* check_output_directories: the tree is read from the CAS and its digests
\* are handed on.
future_trees(h, i, a) ==
    IF a.tree # "Found"
    THEN [h EXCEPT !.futures[i] = "Err"]
    ELSE [handle_digest_infos(h, i, a.children) EXCEPT !.futures[i] = "Ok"]

\* select!: futures.next() gave Some(result) of the future i.
select_some(h, i) ==
    [h EXCEPT !.results[i] = IF h.futures[i] = "Err" THEN None ELSE @,
              !.futures[i] = "taken"]

\* select!: futures.next() gave None.
select_none(h) == [h EXCEPT !.done = TRUE, !.notify = TRUE, !.pc = "await"]

\* check_existance_fut that ends as soon as done is set.
check_existance_notified_ending_at_done(h) ==
    IF h.done
    THEN [h EXCEPT !.notify = FALSE, !.checker.pc = "Ok"]
    ELSE [h EXCEPT !.notify = FALSE,
                   !.checker = [pc |-> "has", digests |-> h.digests_to_check,
                                indexes |-> h.digests_to_check_idxs],
                   !.digests_to_check = <<>>, !.digests_to_check_idxs = <<>>]

\* check_existance_fut from notify.notified() to cas_store.has_with_results.
check_existance_notified(h) ==
    IF h.done /\ h.digests_to_check = <<>>
    THEN [h EXCEPT !.notify = FALSE, !.checker.pc = "Ok"]
    ELSE [h EXCEPT !.notify = h.done,
                   !.checker = [pc |-> "has", digests |-> h.digests_to_check,
                                indexes |-> h.digests_to_check_idxs],
                   !.digests_to_check = <<>>, !.digests_to_check_idxs = <<>>]

\* check_existance_fut from the result of cas_store.has_with_results, which
\* is an error or reports the digests of present as there, to notified().
check_existance_has(h, present, ok) ==
    IF ~ok
    THEN [h EXCEPT !.checker.pc = "Err"]
    ELSE [h EXCEPT !.results = [i \in DOMAIN @ |->
                      IF \E k \in 1..Len(h.checker.digests) :
                            /\ h.checker.indexes[k] = i
                            /\ h.checker.digests[k] \notin present
                      THEN None ELSE @[i]],
                   !.checker = [pc |-> "notified", digests |-> <<>>, indexes |-> <<>>]]

\* The call returns.
has_return(h) == [h EXCEPT !.pc = "done", !.res = h.checker.pc]

\* Every sequence of up to n action results.
RECURSIVE ActionResultSeqs(_)
ActionResultSeqs(n) ==
    IF n = 0 THEN {<<>>}
    ELSE ActionResultSeqs(n - 1) \cup
         {Append(s, a) : s \in {q \in ActionResultSeqs(n - 1) : Len(q) = n - 1},
                         a \in ActionResults}

\*   stores.ac        the action result of each digest of the call
\*   stores.cas       the digests the CAS has
\*   tasks.has        the call
\*   history.checked  the digests, each with its index, that a call of
\*                    cas_store.has_with_results reported on
\*   history.queued   those that were put in digests_to_check
InitCompleteness ==
    /\ SchedulerInit
    /\ \E ac \in ActionResultSeqs(MaxActions), cas \in SUBSET CasDigests :
          /\ stores = [ac |-> ac, cas |-> cas]
          /\ tasks = [has |-> has_begin(Len(ac))]
    /\ history = [checked |-> {}, queued |-> {}]
    /\ channels = <<>>

Pairs(digests, indexes) == {<<digests[k], indexes[k]>> : k \in 1..Len(digests)}

FutureGet(i) ==
    /\ tasks.has.pc = "select"
    /\ tasks.has.futures[i] = "get"
    /\ tasks' = [tasks EXCEPT !.has = future_get(@, i, stores.ac[i])]
    /\ history' = [history EXCEPT !.queued =
          @ \cup Pairs(future_get(tasks.has, i, stores.ac[i]).digests_to_check,
                       future_get(tasks.has, i, stores.ac[i]).digests_to_check_idxs)]
    /\ UNCHANGED <<scheduler_vars, channels, stores>>

FutureTrees(i) ==
    /\ tasks.has.pc = "select"
    /\ tasks.has.futures[i] = "trees"
    /\ tasks' = [tasks EXCEPT !.has = future_trees(@, i, stores.ac[i])]
    /\ history' = [history EXCEPT !.queued =
          @ \cup Pairs(future_trees(tasks.has, i, stores.ac[i]).digests_to_check,
                       future_trees(tasks.has, i, stores.ac[i]).digests_to_check_idxs)]
    /\ UNCHANGED <<scheduler_vars, channels, stores>>

SelectSome(i) ==
    /\ tasks.has.pc = "select"
    /\ tasks.has.futures[i] \in {"Ok", "Err"}
    /\ tasks' = [tasks EXCEPT !.has = select_some(@, i)]
    /\ UNCHANGED <<scheduler_vars, channels, stores, history>>

SelectNone ==
    /\ tasks.has.pc = "select"
    /\ \A i \in DOMAIN tasks.has.futures : tasks.has.futures[i] = "taken"
    /\ tasks' = [tasks EXCEPT !.has = select_none(@)]
    /\ UNCHANGED <<scheduler_vars, channels, stores, history>>

CheckExistanceNotified ==
    /\ tasks.has.pc \in {"select", "await"}
    /\ tasks.has.checker.pc = "notified"
    /\ tasks.has.notify
    /\ tasks' = [tasks EXCEPT !.has = check_existance_notified(@)]
    /\ UNCHANGED <<scheduler_vars, channels, stores, history>>

CheckExistanceHas(ok) ==
    /\ tasks.has.pc \in {"select", "await"}
    /\ tasks.has.checker.pc = "has"
    /\ tasks' = [tasks EXCEPT !.has = check_existance_has(@, stores.cas, ok)]
    /\ history' = [history EXCEPT !.checked =
          IF ok THEN @ \cup Pairs(tasks.has.checker.digests, tasks.has.checker.indexes)
          ELSE @]
    /\ UNCHANGED <<scheduler_vars, channels, stores>>

\* select! finds check_existance_fut ended, or the last await of it ends.
HasReturns ==
    /\ tasks.has.pc \in {"select", "await"}
    /\ tasks.has.checker.pc \in {"Ok", "Err"}
    /\ tasks' = [tasks EXCEPT !.has = has_return(@)]
    /\ UNCHANGED <<scheduler_vars, channels, stores, history>>

NextCompleteness ==
    \/ \E i \in DOMAIN tasks.has.futures : FutureGet(i)
    \/ \E i \in DOMAIN tasks.has.futures : FutureTrees(i)
    \/ \E i \in DOMAIN tasks.has.futures : SelectSome(i)
    \/ SelectNone
    \/ CheckExistanceNotified
    \/ \E ok \in BOOLEAN : CheckExistanceHas(ok)
    \/ HasReturns

\* The one task that runs the call polls a future that can go on.
SpecCompleteness ==
    InitCompleteness /\ [][NextCompleteness]_vars /\ WF_vars(NextCompleteness)

\* The action result i was found and decoded, and so was its tree if it has
\* one, and the CAS has every digest they refer to.
Complete(i) ==
    LET a == stores.ac[i]
    IN /\ a.ac = "Found"
       /\ a.tree # "NotFound"
       /\ \A k \in 1..Len(a.files) : a.files[k] \in stores.cas
       /\ \A k \in 1..Len(a.children) : a.children[k] \in stores.cas

HasReturned == tasks.has.pc = "done"

\* The call returned Ok: nothing queued was left unchecked and results is
\* Some(size) for the complete action results and None for the others.
HasResultsExact ==
    tasks.has.pc = "done" /\ tasks.has.res = "Ok" =>
        /\ tasks.has.digests_to_check = <<>>
        /\ history.queued \subseteq history.checked
        /\ \A i \in DOMAIN stores.ac :
              tasks.has.results[i] = IF Complete(i) THEN Some(stores.ac[i].size) ELSE None

\* C38: in every interleaving of the per-action futures and
\* check_existance_fut the call returns; when it returns Ok no digest that
\* was queued is left unchecked, and results[i] is Some(size) if and only if
\* the action result i was found and decoded and every digest it refers to
\* was reported present by the CAS, and None otherwise.
HasTerminatesExact ==
    /\ []HasResultsExact
    /\ <>HasReturned

\* The call returned Ok for two action results, one complete and one whose
\* tree refers to a digest the CAS lacks.
HasReturnedMixed ==
    /\ tasks.has.pc = "done" /\ tasks.has.res = "Ok"
    /\ Len(stores.ac) = 2
    /\ tasks.has.results[1] = Some(1)
    /\ tasks.has.results[2] = None
    /\ stores.ac[2].ac = "Found" /\ stores.ac[2].tree = "Found"
    /\ <<"d2", 2>> \in history.checked

====
